---- MODULE Spec2Model ----
(***************************************************************************)
(* Model of VoxelRegionFile (streams/region_file.cpp): one region-file    *)
(* instance, the files on disk it opens as byte sequences, and the       *)
(* operations open, close, set_format, load_block, save_block, has_block *)
(* and get_header_block_count.                                            *)
(***************************************************************************)
EXTENDS Integers, Sequences, FiniteSets, TLC

(***************************************************************************)
(* Program constants                                                       *)
(***************************************************************************)
FORMAT_VERSION == 3
FORMAT_VERSION_LEGACY_2 == 2
FORMAT_VERSION_LEGACY_1 == 1
\* "VXR_"
FORMAT_REGION_MAGIC == <<86, 88, 82, 95>>
CHANNEL_COUNT == 8
MAGIC_AND_VERSION_SIZE == 4 + 1
FIXED_HEADER_DATA_SIZE == 7 + CHANNEL_COUNT
PALETTE_SIZE_IN_BYTES == 256 * 4
PALETTE_ENTRIES == 256
MAX_BLOCKS_ACROSS == 255
MAX_SECTOR_INDEX == 16777215
MAX_SECTOR_COUNT == 255
DEPTH_8_BIT == 0
DEPTH_COUNT == 4
SIZEOF_INT == 4
DEFAULT_BLOCK_SIZE_PO2 == 4
DEFAULT_REGION_AXIS == 16
DEFAULT_SECTOR_SIZE == 512

\* Godot error codes returned by the operations
OK == "OK"
ERR_DOES_NOT_EXIST == "ERR_DOES_NOT_EXIST"
ERR_CANT_CREATE == "ERR_CANT_CREATE"
ERR_FILE_NOT_FOUND == "ERR_FILE_NOT_FOUND"
ERR_FILE_CANT_READ == "ERR_FILE_CANT_READ"
ERR_FILE_CANT_WRITE == "ERR_FILE_CANT_WRITE"
ERR_INVALID_PARAMETER == "ERR_INVALID_PARAMETER"
ERR_PARSE_ERROR == "ERR_PARSE_ERROR"
ERR_UNAVAILABLE == "ERR_UNAVAILABLE"
\* a CRASH_COND that fired: the process is gone
CRASH == "CRASH"

\* the build: TRUE when DEBUG_ENABLED is defined (lines 448-451)
VARIABLE debug_enabled

(***************************************************************************)
(* Bounds of the model                                                     *)
(***************************************************************************)
\* calls that may change the instance or a file, issued in one run
MaxOps == 4
\* sectors the longest payload handed out by the serializer fills
MaxSectors == 2
\* calls of save_header nested on the stack before the stack is exhausted
MaxNest == 3

(***************************************************************************)
(* Bytes and files (FileAccess)                                            *)
(***************************************************************************)
Min(a, b) == IF a < b THEN a ELSE b
Max(a, b) == IF a > b THEN a ELSE b

Fill(v, n) == [i \in 1..n |-> v]

\* the index of the last element of s in lo..hi that is not 0, found by
\* halving (0 when there is none)
RECURSIVE LastNonZeroIn(_, _, _)
LastNonZeroIn(s, lo, hi) ==
    IF lo > hi THEN 0
    ELSE IF lo = hi THEN (IF s[lo] # 0 THEN lo ELSE 0)
    ELSE IF SubSeq(s, ((lo + hi) \div 2) + 1, hi) = Fill(0, hi - ((lo + hi) \div 2))
    THEN LastNonZeroIn(s, lo, (lo + hi) \div 2)
    ELSE LastNonZeroIn(s, ((lo + hi) \div 2) + 1, hi)

LastNonZero(s) == LastNonZeroIn(s, 1, Len(s))

\* the program storing a 16-bit value high byte first
U16BE(x) == << (x \div 256) % 256, x % 256 >>

U16LE(x) == << x % 256, (x \div 256) % 256 >>
U32LE(x) == << x % 256, (x \div 256) % 256, (x \div 65536) % 256, (x \div 16777216) % 256 >>

\* FileAccess::get_8 at offset off: 0 past the end of the file
ByteAt(bytes, off) == IF off < Len(bytes) THEN bytes[off + 1] ELSE 0

\* FileAccess::get_buffer: the bytes actually read (short at the end of the file)
ReadBuf(bytes, off, n) ==
    IF off >= Len(bytes) THEN << >>
    ELSE SubSeq(bytes, off + 1, Min(off + n, Len(bytes)))

\* FileAccess::get_16 / get_32, little-endian, built from get_8
Get16(bytes, off) == ByteAt(bytes, off) + (256 * ByteAt(bytes, off + 1))
\* (a top byte above 127 is read as 127: TLC's integers end at 2^31 - 1)
Get32(bytes, off) ==
    ByteAt(bytes, off) + (256 * ByteAt(bytes, off + 1))
        + (65536 * ByteAt(bytes, off + 2)) + (16777216 * Min(ByteAt(bytes, off + 3), 127))

\* FileAccess::seek(off) then store_buffer(data): overwrites, extends the file,
\* and fills a gap between the old end and off with zero bytes
StoreBuf(bytes, off, data) ==
    LET n == Len(bytes)
        m == Len(data)
    IN  (IF off <= n THEN SubSeq(bytes, 1, off) ELSE bytes \o Fill(0, off - n))
            \o data
            \o (IF off + m < n THEN SubSeq(bytes, off + m + 1, n) ELSE << >>)

(***************************************************************************)
(* Vector3i and BlockInfo                                                  *)
(***************************************************************************)
volume(r) == r[1] * r[2] * r[3]

get_zxy_index(p, R) == p[2] + R[2] * (p[1] + R[1] * p[3])

from_zxy_index(i, R) ==
    << (i \div R[2]) % R[1], i % R[2], i \div (R[2] * R[1]) >>

get_sector_index(data) == data \div 256
get_sector_count(data) == data % 256
set_sector_index(data, i) == (i * 256) + (data % 256)
set_sector_count(data, c) == ((data \div 256) * 256) + (c % 256)

get_depth_bit_count(d) == 8 * (2 ^ d)

(***************************************************************************)
(* Header codec                                                            *)
(***************************************************************************)
\* the raw memory of a vector of 32-bit values, little-endian
EntryBytes(blocks) ==
    [i \in 1..(4 * Len(blocks)) |->
        (blocks[((i - 1) \div 4) + 1] \div (256 ^ ((i - 1) % 4))) % 256]

\* the raw memory of _header.blocks, as store_buffer writes it: the bytes of the
\* entries up to the last present one, then the zero bytes of the absent
\* entries behind it
BlocksBytes(blocks) ==
    EntryBytes(SubSeq(blocks, 1, LastNonZero(blocks)))
        \o Fill(0, 4 * (Len(blocks) - LastNonZero(blocks)))

\* lines 434-439: the colours as << r, g, b, a >>, one byte each
PaletteBytes(palette) ==
    [i \in 1..(4 * Len(palette)) |-> palette[((i - 1) \div 4) + 1][((i - 1) % 4) + 1]]

\* std::vector::resize: keeps the entries it has, value-initialises the new ones
Resize(blocks, n) ==
    IF n <= Len(blocks) THEN SubSeq(blocks, 1, n) ELSE blocks \o Fill(0, n - Len(blocks))

get_header_size_v3(format) ==
    MAGIC_AND_VERSION_SIZE + FIXED_HEADER_DATA_SIZE
        + (IF format.has_palette THEN PALETTE_SIZE_IN_BYTES ELSE 0)
        + volume(format.region_size) * 4

\* the bytes save_header stores from offset 0 (lines 414-446)
HeaderBytes(h) ==
    FORMAT_REGION_MAGIC
        \o << h.version % 256 >>
        \o << h.format.block_size_po2 % 256 >>
        \o << h.format.region_size[1] % 256, h.format.region_size[2] % 256,
              h.format.region_size[3] % 256 >>
        \o [i \in 1..CHANNEL_COUNT |-> h.format.channel_depths[i]]
        \o U16LE(h.format.sector_size)
        \o (IF h.format.has_palette
              THEN << 255 >> \o PaletteBytes(h.format.palette)
              ELSE << 0 >>)
        \o BlocksBytes(h.blocks)

\* the depths loop of load_header, lines 526-530: the first channel whose depth
\* byte is no Depth (CHANNEL_COUNT + 1 when every byte is one)
FirstBadDepth(bytes) ==
    LET bad == {i \in 1..CHANNEL_COUNT : ByteAt(bytes, 8 + i) >= DEPTH_COUNT}
    IN  IF bad = {} THEN CHANNEL_COUNT + 1 ELSE CHOOSE i \in bad : \A j \in bad : i <= j

\* load_header, lines 532-552: sector size and palette, f1 being the format with
\* block size, region size and depths already assigned
LoadHeaderPalette(f1, bytes) ==
    LET marker == ByteAt(bytes, 11 + CHANNEL_COUNT)
    IN  IF marker = 255 THEN
            [err |-> OK,
             format |-> [f1 EXCEPT !.sector_size = Get16(bytes, 9 + CHANNEL_COUNT),
                                   !.has_palette = TRUE,
                                   !.palette = [i \in 1..PALETTE_ENTRIES |->
                                       << ByteAt(bytes, 12 + CHANNEL_COUNT + 4 * (i - 1)),
                                          ByteAt(bytes, 13 + CHANNEL_COUNT + 4 * (i - 1)),
                                          ByteAt(bytes, 14 + CHANNEL_COUNT + 4 * (i - 1)),
                                          ByteAt(bytes, 15 + CHANNEL_COUNT + 4 * (i - 1)) >>]],
             pos |-> 12 + CHANNEL_COUNT + PALETTE_SIZE_IN_BYTES]
        ELSE IF marker = 0 THEN
            [err |-> OK,
             format |-> [f1 EXCEPT !.sector_size = Get16(bytes, 9 + CHANNEL_COUNT),
                                   !.has_palette = FALSE],
             pos |-> 12 + CHANNEL_COUNT]
        ELSE [err |-> ERR_PARSE_ERROR,
              format |-> [f1 EXCEPT !.sector_size = Get16(bytes, 9 + CHANNEL_COUNT)],
              pos |-> 0]

\* load_header, the version-3 branch (lines 520-552): the format as far as it
\* was assigned, and the read position reached
LoadHeaderFormat(fmt, bytes) ==
    LET firstBad == FirstBadDepth(bytes)
        f1 == [fmt EXCEPT
                 !.block_size_po2 = ByteAt(bytes, 5),
                 !.region_size = << ByteAt(bytes, 6), ByteAt(bytes, 7), ByteAt(bytes, 8) >>,
                 !.channel_depths = [i \in 1..CHANNEL_COUNT |->
                     IF i < firstBad THEN ByteAt(bytes, 8 + i) ELSE fmt.channel_depths[i]]]
    IN  IF firstBad <= CHANNEL_COUNT THEN [err |-> ERR_PARSE_ERROR, format |-> f1, pos |-> 0]
        ELSE LoadHeaderPalette(f1, bytes)

\* byte k of the memory of the block table old after rd was read over its start
MemByte(rd, old, k) ==
    IF k <= Len(rd) THEN rd[k]
    ELSE (old[((k - 1) \div 4) + 1] \div (256 ^ ((k - 1) % 4))) % 256

\* lines 556-560: the table resized to n entries, then overwritten by the bytes
\* read; the entries the read did not reach keep their value
\* (a top byte above 127 is read as 127, as in Get32)
ReadEntry(rd, old, i) ==
    MemByte(rd, old, 4 * i - 3) + (256 * MemByte(rd, old, 4 * i - 2))
        + (65536 * MemByte(rd, old, 4 * i - 1))
        + (16777216 * Min(MemByte(rd, old, 4 * i), 127))

\* (the entries read in full behind the last byte of rd that is not 0 are 0)
ReadBlocks(rd, old, n) ==
    LET reached == Min((Len(rd) + 3) \div 4, n)
        full == Len(rd) \div 4
        live == Min((LastNonZero(rd) + 3) \div 4, full)
    IN  [i \in 1..live |-> ReadEntry(rd, old, i)]
          \o Fill(0, full - live)
          \o [i \in 1..(reached - full) |-> ReadEntry(rd, old, full + i)]
          \o SubSeq(old, reached + 1, n)

\* lines 555-564, rd being the bytes get_buffer read for the table of n entries
LoadHeaderBlocks(h, version, fr, n, rd) ==
    [err |-> IF Len(rd) # 4 * n THEN ERR_PARSE_ERROR ELSE OK,
     header |-> [version |-> version, format |-> fr.format,
                 blocks |-> ReadBlocks(rd, Resize(h.blocks, n), n)],
     begin |-> IF Len(rd) # 4 * n THEN -1 ELSE fr.pos + 4 * n]

\* load_header after the magic, fr being what the format part left
LoadHeaderRest(h, bytes, version, fr) ==
    IF fr.err # OK
    THEN [err |-> fr.err, header |-> [h EXCEPT !.format = fr.format], begin |-> -1]
    ELSE LoadHeaderBlocks(h, version, fr, volume(fr.format.region_size),
                          ReadBuf(bytes, fr.pos, 4 * volume(fr.format.region_size)))

\* load_header(f) on an instance whose header is h: the error code, the header
\* as the call leaves it, and _blocks_begin_offset (-1: not assigned)
LoadHeader(h, bytes) ==
    IF Len(bytes) < 4 \/ SubSeq(bytes, 1, 4) # FORMAT_REGION_MAGIC
    THEN [err |-> ERR_PARSE_ERROR, header |-> h, begin |-> -1]
    ELSE LoadHeaderRest(h, bytes, ByteAt(bytes, 4),
                        IF ByteAt(bytes, 4) = FORMAT_VERSION
                        THEN LoadHeaderFormat(h.format, bytes)
                        ELSE [err |-> OK, format |-> h.format, pos |-> MAGIC_AND_VERSION_SIZE])

\* VoxelFileUtils::insert_bytes at offset pos: the tail of the file moves k bytes forward
InsertBytes(bytes, pos, k) ==
    IF pos <= Len(bytes)
    THEN SubSeq(bytes, 1, pos) \o Fill(0, k) \o SubSeq(bytes, pos + 1, Len(bytes))
    ELSE bytes \o Fill(0, k)

(***************************************************************************)
(* save_header and migration.  st is the part of the instance they touch:  *)
(* [header, bytes (of the file f), begin, modified, wlog].  wlog records   *)
(* every write to the file as <<kind, header version at that moment>>.     *)
(* The three operators call each other as the functions do; nest counts    *)
(* the calls of save_header on the stack.                                  *)
(***************************************************************************)
StoreHeader(st, header_bytes) ==
    [st EXCEPT !.bytes = StoreBuf(st.bytes, 0, header_bytes),
               !.begin = Len(header_bytes),
               !.modified = FALSE,
               !.wlog = st.wlog \cup {<< "header", st.header.version >>}]

\* lines 414-446 and 453 of save_header: the header goes to offset 0
WriteHeader(st) == StoreHeader(st, HeaderBytes(st.header))

\* the program with the guards of lines 217 and 410 left out
NeverMigrates(h) == FALSE

\* the guard of lines 217 and 410
NeedsMigration(h) == h.version # FORMAT_VERSION

\* the program with line 478 left out
VersionKept == FORMAT_VERSION_LEGACY_2

\* line 478
VersionAfterMigration == FORMAT_VERSION

Failed(st, nest) == [ok |-> FALSE, crash |-> FALSE, st |-> st, nest |-> nest]
Done(st, nest) == [ok |-> TRUE, crash |-> FALSE, st |-> st, nest |-> nest]

\* lines 447-454 of save_header, st being the instance after the header was
\* stored: a build with DEBUG_ENABLED stops unless the header has the size
\* get_header_size_v3 computes
Written(st, nest) ==
    IF debug_enabled /\ st.begin # get_header_size_v3(st.header.format)
    THEN [ok |-> FALSE, crash |-> TRUE, st |-> st, nest |-> nest]
    ELSE Done(st, nest)

\* lines 497-498 and 506, r being what migrate_from_v2_to_v3 returned
MigratedFromV2(r) == IF ~r.ok THEN r ELSE [r EXCEPT !.st.header.version = FORMAT_VERSION]

\* lines 411-454, m being what migrate_to_latest returned
HeaderAfterMigration(m) == IF ~m.ok THEN m ELSE Written(WriteHeader(m.st), m.nest)

RECURSIVE SaveHeader(_, _, _)
RECURSIVE MigrateToLatest(_, _, _)
RECURSIVE MigrateFromV2ToV3(_, _, _)

\* the program with lines 472-473 left out: the header grows over the first
\* sectors instead of moving them
MigrateWithoutInsert(st, path, nest) ==
    LET format == st.header.format
        old_header_size == volume(format.region_size) * 4
        new_header_size == get_header_size_v3(format) - MAGIC_AND_VERSION_SIZE
    IN  IF format.block_size_po2 = 0 \/ new_header_size < old_header_size
        THEN Failed(st, nest)
        ELSE SaveHeader([st EXCEPT !.header.version = VersionAfterMigration], path, nest + 1)

MigrateFromV2ToV3(st, path, nest) ==
    LET format == st.header.format
        old_header_size == volume(format.region_size) * 4
        new_header_size == get_header_size_v3(format) - MAGIC_AND_VERSION_SIZE
    IN  IF format.block_size_po2 = 0 \/ new_header_size < old_header_size
        THEN Failed(st, nest)
        ELSE SaveHeader(
               [st EXCEPT !.bytes = InsertBytes(st.bytes, MAGIC_AND_VERSION_SIZE,
                                                new_header_size - old_header_size),
                          !.wlog = st.wlog \cup {<< "insert", st.header.version >>},
                          !.header.version = VersionAfterMigration],
               path, nest + 1)

MigrateToLatest(st, path, nest) ==
    IF path = "" THEN Failed(st, nest)
    ELSE IF st.header.version = FORMAT_VERSION_LEGACY_2
    THEN MigratedFromV2(MigrateFromV2ToV3(st, path, nest))
    ELSE IF st.header.version # FORMAT_VERSION THEN Failed(st, nest)
    ELSE Done(st, nest)

SaveHeader(st, path, nest) ==
    IF nest > MaxNest
    THEN [ok |-> FALSE, crash |-> TRUE, st |-> st, nest |-> nest]
    ELSE IF NeedsMigration(st.header)
    THEN HeaderAfterMigration(MigrateToLatest(st, path, nest))
    ELSE Written(WriteHeader(st), nest)

(***************************************************************************)
(* The sector map and the allocation engine                                *)
(***************************************************************************)
\* unsigned 32-bit arithmetic: a negative result wraps to the top of the range.
\* TLC's integers end at 2^31 - 1, so the wrapped value is taken from the top
\* of that range; it exceeds every offset, size and index of the model as
\* 2^32 - |x| does
U32(x) == IF x < 0 THEN x + 2147483647 ELSE x

\* the program indexing the table in x, y, z order
get_block_index_xyz(h, rpos) ==
    U32(rpos[1] + h.format.region_size[1] * (rpos[2] + h.format.region_size[2] * rpos[3]))

get_block_index_in_header(h, rpos) == U32(get_zxy_index(rpos, h.format.region_size))

get_block_position_from_index(h, i) == from_zxy_index(i, h.format.region_size)

\* uint32_t values as their four bytes, lowest first, so that the arithmetic of
\* line 576 keeps its width: x + c and x - c modulo 2^32, and x / d
RECURSIVE U32Add(_, _)
U32Add(x, c) ==
    IF x = << >> THEN << >>
    ELSE << (x[1] + c) % 256 >> \o U32Add(Tail(x), (x[1] + c) \div 256)

RECURSIVE U32Sub(_, _)
U32Sub(x, c) ==
    IF x = << >> THEN << >>
    ELSE IF x[1] >= c THEN << x[1] - c >> \o Tail(x)
    ELSE << (x[1] + 256 * ((c - x[1] + 255) \div 256)) - c >>
             \o U32Sub(Tail(x), (c - x[1] + 255) \div 256)

\* the bytes i..1 of x / d, rem being what the bytes above i left
RECURSIVE U32DivFrom(_, _, _, _)
U32DivFrom(x, i, d, rem) ==
    IF i = 0 THEN << >>
    ELSE U32DivFrom(x, i - 1, d, (rem * 256 + x[i]) % d) \o << (rem * 256 + x[i]) \div d >>

U32Div(x, d) == U32DivFrom(x, Len(x), d, 0)

\* the program rounding up with (size_in_bytes + sector_size - 1) / sector_size
SectorCountAddingFirst(size_in_bytes, sector_size) ==
    U32Div(U32Add(size_in_bytes, sector_size - 1), sector_size)

\* line 576, on the bytes of size_in_bytes
SectorCountFromBytes(size_in_bytes, sector_size) ==
    U32Add(U32Div(U32Sub(size_in_bytes, 1), sector_size), 1)

get_sector_count_from_bytes(h, size_in_bytes) ==
    Get32(SectorCountFromBytes(U32LE(size_in_bytes), h.format.sector_size), 0)

RECURSIVE SumCounts(_, _)
SumCounts(blocks, S) ==
    IF S = {} THEN 0
    ELSE LET i == CHOOSE j \in S : TRUE
         IN  get_sector_count(blocks[i]) + SumCounts(blocks, S \ {i})

\* open(), lines 78-107: the present blocks sorted by sector index, each block's
\* position repeated sector_count times (blocks of equal sector index, which
\* std::sort may leave in either order, are taken in table order)
BuildSectors(h) ==
    LET blocks == h.blocks
        present == {i \in 1..LastNonZero(blocks) : blocks[i] # 0}
        Before(i) == {j \in present :
                        \/ get_sector_index(blocks[j]) < get_sector_index(blocks[i])
                        \/ /\ get_sector_index(blocks[j]) = get_sector_index(blocks[i])
                           /\ j < i}
        start(i) == SumCounts(blocks, Before(i))
    IN  [s \in 1..SumCounts(blocks, present) |->
            LET i == CHOOSE j \in present :
                        start(j) < s /\ s <= start(j) + get_sector_count(blocks[j])
            IN  get_block_position_from_index(h, i - 1)]

\* pad_to_sector_size with the file position at offset pos
pad_to_sector_size(st, pos) ==
    LET rpos == pos - st.begin
        ss == st.header.format.sector_size
        pad == ss - ((rpos - 1) % ss) - 1
    IN  IF rpos = 0 THEN st
        ELSE [st EXCEPT !.bytes = StoreBuf(st.bytes, pos, Fill(0, pad))]

\* the program with the copy loop of lines 367-377 left out: the sectors behind
\* the block that shrinks stay where they are
SectorsNotMoved(bytes, src_offset, dst_offset, old_end_offset, sector_size) ==
    [crash |-> FALSE, bytes |-> bytes]

\* the copy loop of remove_sectors_from_block, lines 367-377
RECURSIVE MoveSectors(_, _, _, _, _)
MoveSectors(bytes, src_offset, dst_offset, old_end_offset, sector_size) ==
    IF src_offset >= old_end_offset THEN [crash |-> FALSE, bytes |-> bytes]
    ELSE LET temp == ReadBuf(bytes, src_offset, sector_size)
         IN  IF Len(temp) # sector_size THEN [crash |-> TRUE, bytes |-> bytes]
             ELSE MoveSectors(StoreBuf(bytes, dst_offset, temp),
                              src_offset + sector_size, dst_offset + sector_size,
                              old_end_offset, sector_size)

\* lines 397-405: the sector index of the blocks after the one cut moves down
\* the program with lines 397-405 left out
FollowingNotShifted(blocks, old_sector_index, p_sector_count) == blocks

\* (the absent entries behind the last present one stay as they are)
ShiftFollowing(blocks, old_sector_index, p_sector_count) ==
    [i \in 1..LastNonZero(blocks) |->
        IF blocks[i] # 0 /\ get_sector_index(blocks[i]) > old_sector_index
        THEN set_sector_index(blocks[i], get_sector_index(blocks[i]) - p_sector_count)
        ELSE blocks[i]]
      \o SubSeq(blocks, LastNonZero(blocks) + 1, Len(blocks))

\* line 356: CRASH_COND(_sectors.size() - p_sector_count <= 0), in unsigned arithmetic
RemovesEverySector(n_sectors, p_sector_count) == n_sectors - p_sector_count = 0

\* the program with the erase of lines 382-385 left out
SectorsNotErased(secs, idx, cnt, p_sector_count) == secs

\* lines 382-385: the sectors cut out of the sector map
EraseSectors(secs, idx, cnt, p_sector_count) ==
    [s \in 1..(Len(secs) - p_sector_count) |->
        IF s <= idx + cnt - p_sector_count THEN secs[s] ELSE secs[s + p_sector_count]]

\* the program with the test of line 398 never true: the entries of the blocks
\* after the one cut keep their sector index
CutWithoutShift(blocks, block_index, n_kept, p_sector_count) ==
    LET info == blocks[block_index + 1]
    IN  [blocks EXCEPT ![block_index + 1] =
            IF get_sector_count(info) > p_sector_count
            THEN set_sector_count(info, get_sector_count(info) - p_sector_count)
            ELSE 0]

\* lines 387-405: the block's own entry, then the entries of the blocks after it
CutBlock(blocks, block_index, n_kept, p_sector_count) ==
    LET info == blocks[block_index + 1]
        cut == IF get_sector_count(info) > p_sector_count
               THEN set_sector_count(info, get_sector_count(info) - p_sector_count)
               ELSE 0
    IN  IF get_sector_index(info) < n_kept
        THEN ShiftFollowing([blocks EXCEPT ![block_index + 1] = cut],
                            get_sector_index(info), p_sector_count)
        ELSE [blocks EXCEPT ![block_index + 1] = cut]

\* lines 379-405, mv being what the copy loop left
SectorsRemoved(st, secs, block_index, p_sector_count, mv, moved) ==
    IF mv.crash
    THEN [crash |-> TRUE, st |-> [st EXCEPT !.bytes = mv.bytes], sectors |-> secs]
    ELSE [crash |-> FALSE,
          st |-> [st EXCEPT
                    !.bytes = mv.bytes,
                    !.header.blocks = CutBlock(st.header.blocks, block_index,
                                               Len(secs) - p_sector_count, p_sector_count),
                    !.wlog = IF moved THEN st.wlog \cup {<< "sector", st.header.version >>}
                             ELSE st.wlog],
          sectors |-> EraseSectors(secs, get_sector_index(st.header.blocks[block_index + 1]),
                                   get_sector_count(st.header.blocks[block_index + 1]),
                                   p_sector_count)]

\* remove_sectors_from_block(block_pos, p_sector_count)
RemoveSectors(st, secs, block_pos, p_sector_count) ==
    LET sector_size == st.header.format.sector_size
        old_end_offset == st.begin + Len(secs) * sector_size
        block_index == get_block_index_in_header(st.header, block_pos)
        info == st.header.blocks[block_index + 1]
        src_offset == st.begin
                        + (get_sector_index(info) + get_sector_count(info)) * sector_size
        dst_offset == src_offset - p_sector_count * sector_size
    IN  IF \/ p_sector_count <= 0
           \/ block_index >= Len(st.header.blocks)
           \/ RemovesEverySector(Len(secs), p_sector_count)
           \/ U32(src_offset - sector_size) < U32(dst_offset)
           \/ get_sector_index(info) + p_sector_count > Len(secs)
           \/ p_sector_count > get_sector_count(info)
           \/ U32(dst_offset) < st.begin
        THEN [crash |-> TRUE, st |-> st, sectors |-> secs]
        ELSE SectorsRemoved(st, secs, block_index, p_sector_count,
                            MoveSectors(st.bytes, src_offset, dst_offset, old_end_offset,
                                        sector_size),
                            old_end_offset > src_offset)

\* f->store_32(data.size()); f->store_buffer(data) at offset off
StoreBlock(st, off, data) ==
    [st EXCEPT !.bytes = StoreBuf(st.bytes, off, U32LE(Len(data)) \o data),
               !.wlog = st.wlog \cup {<< "sector", st.header.version >>}]

\* the program appending the position once, whatever the sector count
PushedOnce(secs, position, n) == secs \o << position >>

PushBack(secs, position, n) ==
    LET size == Len(secs)
    IN  [s \in 1..(size + n) |-> IF s <= size THEN secs[s] ELSE position]

\* save_block, lines 225-252: the block is not in the file yet
SaveNewBlock(st, secs, position, lut_index, data) ==
    LET ss == st.header.format.sector_size
        block_offset == st.begin + Len(secs) * ss
        written_size == SIZEOF_INT + Len(data)
        s1 == pad_to_sector_size(StoreBlock(st, block_offset, data), block_offset + written_size)
        i1 == set_sector_index(0, (block_offset - st.begin) \div ss)
        i2 == set_sector_count(i1, get_sector_count_from_bytes(st.header, written_size))
    IN  [crash |-> FALSE,
         st |-> [s1 EXCEPT !.header.blocks[lut_index + 1] = i2, !.modified = TRUE],
         sectors |-> PushBack(secs, position, get_sector_count(i2))]

\* the program marking the header as modified after every write in place
SaveInPlaceMarked(r, lut_index, data, old_sector_index, new_sector_count) ==
    IF r.crash THEN r
    ELSE [crash |-> FALSE,
          st |-> [StoreBlock(r.st, r.st.begin
                                     + old_sector_index * r.st.header.format.sector_size, data)
                    EXCEPT !.header.blocks[lut_index + 1] =
                               set_sector_count(@, new_sector_count),
                           !.modified = TRUE],
          sectors |-> r.sectors]

\* lines 269-286, r being the instance after the sectors in excess were removed
SaveInPlace(r, lut_index, data, old_sector_index, new_sector_count) ==
    IF r.crash THEN r
    ELSE [crash |-> FALSE,
          st |-> [StoreBlock(r.st, r.st.begin
                                     + old_sector_index * r.st.header.format.sector_size, data)
                    EXCEPT !.header.blocks[lut_index + 1] =
                               set_sector_count(@, new_sector_count)],
          sectors |-> r.sectors]

\* line 275: the sector count changed
HeaderModified(q) == [q EXCEPT !.st.modified = TRUE]

\* lines 294-313, r being the instance after all sectors of the block were removed
SaveAtEnd(r, position, lut_index, data, new_sector_count) ==
    LET block_offset == r.st.begin + Len(r.sectors) * r.st.header.format.sector_size
    IN  IF r.crash THEN r
        ELSE [crash |-> FALSE,
              st |-> [pad_to_sector_size(StoreBlock(r.st, block_offset, data),
                                         block_offset + SIZEOF_INT + Len(data))
                        EXCEPT !.header.blocks[lut_index + 1] =
                                   set_sector_count(
                                       set_sector_index(r.st.header.blocks[lut_index + 1],
                                                        Len(r.sectors)),
                                       new_sector_count),
                               !.modified = TRUE],
              sectors |-> PushBack(r.sectors, position, new_sector_count)]

\* save_block, lines 254-314: the block is already in the file
SaveExistingBlock(st, secs, position, lut_index, data) ==
    LET info == st.header.blocks[lut_index + 1]
        old_sector_index == get_sector_index(info)
        old_sector_count == get_sector_count(info)
        new_sector_count == get_sector_count_from_bytes(st.header, SIZEOF_INT + Len(data))
    IN  IF Len(secs) = 0 \/ old_sector_count < 1 \/ new_sector_count < 1
        THEN [crash |-> TRUE, st |-> st, sectors |-> secs]
        ELSE IF new_sector_count < old_sector_count
        THEN SaveInPlace(HeaderModified(RemoveSectors(st, secs, position,
                                                      old_sector_count - new_sector_count)),
                         lut_index, data, old_sector_index, new_sector_count)
        ELSE IF new_sector_count = old_sector_count
        THEN SaveInPlace([crash |-> FALSE, st |-> st, sectors |-> secs],
                         lut_index, data, old_sector_index, new_sector_count)
        ELSE SaveAtEnd(RemoveSectors(st, secs, position, old_sector_count),
                       position, lut_index, data, new_sector_count)

\* load_block, lines 174-198, on an open file: the error code and the payload read
LoadBlockOp(h, bytes, begin, position) ==
    LET lut_index == get_block_index_in_header(h, position)
        info == h.blocks[lut_index + 1]
        off == begin + get_sector_index(info) * h.format.sector_size
        block_data_size == Get32(bytes, off)
        rd == ReadBuf(bytes, off + 4, block_data_size)
    IN  IF lut_index >= Len(h.blocks) THEN [ret |-> ERR_INVALID_PARAMETER, data |-> << >>]
        ELSE IF info = 0 THEN [ret |-> ERR_DOES_NOT_EXIST, data |-> << >>]
        ELSE IF off + 4 > Len(bytes) THEN [ret |-> CRASH, data |-> << >>]
        ELSE IF Len(rd) # block_data_size THEN [ret |-> ERR_PARSE_ERROR, data |-> << >>]
        ELSE [ret |-> OK, data |-> rd]

\* verify_format, lines 201-207
verify_format(h, block) ==
    /\ block.edge = 2 ^ h.format.block_size_po2
    /\ \A i \in 1..CHANNEL_COUNT : block.channel_depths[i] = h.format.channel_depths[i]

(***************************************************************************)
(* Inputs of the model                                                     *)
(***************************************************************************)
Paths == {"a", "b"}

AllDepths8 == [i \in 1..CHANNEL_COUNT |-> DEPTH_8_BIT]

\* the header version a newly constructed instance holds
InitialVersion == FORMAT_VERSION

\* the Format a newly constructed instance holds (constructor, lines 25-31)
DefaultFormat ==
    [block_size_po2 |-> DEFAULT_BLOCK_SIZE_PO2,
     region_size |-> << DEFAULT_REGION_AXIS, DEFAULT_REGION_AXIS, DEFAULT_REGION_AXIS >>,
     channel_depths |-> AllDepths8,
     sector_size |-> DEFAULT_SECTOR_SIZE,
     has_palette |-> FALSE,
     palette |-> [i \in 1..PALETTE_ENTRIES |-> << 0, 0, 0, 0 >>]]

\* the header a newly constructed instance holds
ConstructedHeader == [version |-> InitialVersion, format |-> DefaultFormat, blocks |-> << >>]


\* the format the caller stages: blocks of 2x2x2 voxels, a region of 3x1x1
\* blocks, sectors of 8 bytes
StagedFormat ==
    [DefaultFormat EXCEPT !.block_size_po2 = 1, !.region_size = << 3, 1, 1 >>,
                          !.sector_size = 8]

\* a format set_format rejects
RejectedFormat == [StagedFormat EXCEPT !.block_size_po2 = 0]

FormatInputs == {StagedFormat, RejectedFormat}

Positions == {<< x, 0, 0 >> : x \in 0..2}

\* what the serializer returns: payloads that leave one byte of their only sector
\* unused, and payloads that fill k sectors exactly
Payload(v, len) == [i \in 1..len |-> (16 * v + i) % 256]
ShortLength == StagedFormat.sector_size - SIZEOF_INT - 1
LongLength(k) == StagedFormat.sector_size * k - SIZEOF_INT
Payloads ==
    {Payload(v, ShortLength) : v \in 1..2}
        \cup {Payload(1, LongLength(k)) : k \in 2..MaxSectors}

NullBlock == [edge |-> 0, channel_depths |-> AllDepths8, data |-> << >>, null |-> TRUE]
\* a block of the edge length the constructor's format asks for
DefaultBlock ==
    [edge |-> 2 ^ DEFAULT_BLOCK_SIZE_PO2, channel_depths |-> AllDepths8,
     data |-> Payload(1, ShortLength), null |-> FALSE]
\* a block of the staged edge length whose first channel is not 8 bits deep
DeepBlock ==
    [edge |-> 2, channel_depths |-> [AllDepths8 EXCEPT ![1] = DEPTH_8_BIT + 1],
     data |-> Payload(1, ShortLength), null |-> FALSE]
Blocks ==
    {[edge |-> 2, channel_depths |-> AllDepths8, data |-> d, null |-> FALSE] : d \in Payloads}
        \cup {NullBlock, DefaultBlock, DeepBlock}

NoPayload == << >>

\* a block as save_block lays it out in a fresh run of sectors
BlockBytes(data, ss) ==
    LET w == SIZEOF_INT + Len(data)
    IN  U32LE(Len(data)) \o data \o Fill(0, (ss - (w % ss)) % ss)

\* the table and the sectors of a file that holds block (1,0,0) in sectors 0-1
\* and block (0,0,0) in sector 2
StoredTable == << set_sector_count(set_sector_index(0, 2), 1),
                  set_sector_count(set_sector_index(0, 0), 2), 0 >>
StoredSectors ==
    BlockBytes(Payload(2, LongLength(2)), StagedFormat.sector_size)
        \o BlockBytes(Payload(1, ShortLength), StagedFormat.sector_size)
StoredPayloads ==
    [p \in Positions |->
        IF p = << 0, 0, 0 >> THEN Payload(1, ShortLength)
        ELSE IF p = << 1, 0, 0 >> THEN Payload(2, LongLength(2))
        ELSE NoPayload]

Missing == [exists |-> FALSE, bytes |-> << >>]

\* that file as the version-2 (or version-1) program wrote it for the staged
\* format, and as this program writes it
LegacyFile(version) ==
    FORMAT_REGION_MAGIC \o << version >> \o BlocksBytes(StoredTable) \o StoredSectors
CurrentFile ==
    HeaderBytes([version |-> FORMAT_VERSION, format |-> StagedFormat, blocks |-> StoredTable])
        \o StoredSectors

StoredFile(version) == IF version = FORMAT_VERSION THEN CurrentFile ELSE LegacyFile(version)

\* a version-2 file the version-2 program wrote with the format of the
\* constructor, no block saved in it yet
EmptyLegacyFile ==
    FORMAT_REGION_MAGIC \o << FORMAT_VERSION_LEGACY_2 >>
        \o Fill(0, 4 * volume(DefaultFormat.region_size))

\* the files path "b" may hold when the instance is constructed
StoredFiles ==
    {Missing}
        \cup {[exists |-> TRUE, bytes |-> StoredFile(v)] :
                 v \in {FORMAT_VERSION_LEGACY_1, FORMAT_VERSION_LEGACY_2, FORMAT_VERSION}}

NothingSaved == [p \in Positions |-> NoPayload]

(***************************************************************************)
(* State                                                                   *)
(***************************************************************************)
VARIABLES
    disk,                 \* path -> [exists, bytes]: the files on disk
    file_access,          \* _file_access: the path of the open file, "" for nullptr
    file_path,            \* _file_path
    header,               \* _header: [version, format, blocks]
    header_modified,      \* _header_modified
    blocks_begin_offset,  \* _blocks_begin_offset
    sectors,              \* _sectors
    leaked,               \* FileAccess objects open() allocated and nobody deletes
    crashed,              \* a CRASH_COND fired
    last,                 \* the last call: [op, ret, pos, kind, n]
    saved,                \* path -> position -> the payload last saved there
    wlog,                 \* the writes made to files: <<kind, header version then>>
    nops,                 \* calls made so far
    format_staged         \* set_format has returned true on this instance

vars == << debug_enabled, format_staged, disk, file_access, file_path, header, header_modified,
           blocks_begin_offset, sectors, leaked, crashed, last, saved, wlog, nops >>

NoPos == << -1, -1, -1 >>

\* the state after construction, path "b" holding one of files, sv being the
\* payloads saved in it
Constructed(files, sv) ==
    /\ \E stored \in files :
         /\ disk = [p \in Paths |-> IF p = "b" THEN stored ELSE Missing]
         /\ saved = [p \in Paths |-> IF p = "b" /\ stored.exists THEN sv ELSE NothingSaved]
    /\ debug_enabled \in BOOLEAN
    /\ format_staged = FALSE
    /\ file_access = ""
    /\ file_path = ""
    /\ header = ConstructedHeader
    /\ header_modified = FALSE
    /\ blocks_begin_offset = 0
    /\ sectors = << >>
    /\ leaked = 0
    /\ crashed = FALSE
    /\ last = [op |-> "new", ret |-> OK, pos |-> NoPos, kind |-> "none", n |-> 0]
    /\ wlog = {}
    /\ nops = 0

Init == Constructed(StoredFiles, StoredPayloads)

\* the state after construction when path "b" holds the version-2 file written
\* with the format of the constructor
InitDefaultFormat == Constructed({[exists |-> TRUE, bytes |-> EmptyLegacyFile]}, NothingSaved)

\* the part of the instance save_header and save_block work on
CurSt ==
    [header |-> header,
     bytes |-> IF file_access = "" THEN << >> ELSE disk[file_access].bytes,
     begin |-> blocks_begin_offset,
     modified |-> header_modified,
     wlog |-> wlog]

\* every variable of the next state, after a call that may change the instance
Update(d, fa, fp, st, secs, lk, cr, lst, sv) ==
    /\ disk' = d
    /\ file_access' = fa
    /\ file_path' = fp
    /\ header' = st.header
    /\ header_modified' = st.modified
    /\ blocks_begin_offset' = st.begin
    /\ sectors' = secs
    /\ leaked' = lk
    /\ crashed' = cr
    /\ last' = lst
    /\ saved' = sv
    /\ wlog' = st.wlog
    /\ nops' = nops + 1
    /\ format_staged' = (format_staged \/ (lst.op = "set_format" /\ lst.ret = "true"))
    /\ UNCHANGED debug_enabled

\* the next state after a call of a function that assigns no member and writes
\* no file
Observe(cr, lst) ==
    /\ crashed' = cr
    /\ last' = lst
    /\ UNCHANGED << debug_enabled, format_staged, disk, file_access, file_path, header, header_modified,
                    blocks_begin_offset, sectors, leaked, saved, wlog, nops >>

\* kind: for save_block the block handed in ("null", "edge", "depths", "ok"); for open
\* what open found ("existing", "created", "none")
Call(op, ret, pos, kind) == [op |-> op, ret |-> ret, pos |-> pos, kind |-> kind, n |-> 0]

CanCall == ~crashed /\ nops < MaxOps

WithBytes(d, path, bytes) == [d EXCEPT ![path] = [exists |-> TRUE, bytes |-> bytes]]

(***************************************************************************)
(* close                                                                    *)
(***************************************************************************)
\* the program with the test of line 116 left out: close() always saves the header
CloseAlwaysSaves ==
    IF file_access # ""
    THEN [err |-> IF SaveHeader(CurSt, file_path, 1).ok THEN OK ELSE ERR_FILE_CANT_WRITE,
          crash |-> SaveHeader(CurSt, file_path, 1).crash,
          st |-> SaveHeader(CurSt, file_path, 1).st]
    ELSE [err |-> OK, crash |-> FALSE, st |-> CurSt]

\* lines 117-121, r being what save_header returned
HeaderSavedOnClose(r) ==
    [err |-> IF r.ok THEN OK ELSE ERR_FILE_CANT_WRITE, crash |-> r.crash, st |-> r.st]

\* close(), lines 112-129: the error code and the instance as close leaves it
CloseOp ==
    IF file_access # "" /\ header_modified
    THEN HeaderSavedOnClose(SaveHeader(CurSt, file_path, 1))
    ELSE [err |-> OK, crash |-> FALSE, st |-> CurSt]

DiskAfterClose(c) ==
    IF file_access = "" THEN disk ELSE WithBytes(disk, file_access, c.st.bytes)

Close ==
    /\ CanCall
    /\ \E c \in {CloseOp} :
         Update(DiskAfterClose(c), "", file_path, c.st, << >>, leaked, c.crash,
                Call("close", IF c.crash THEN CRASH ELSE c.err, NoPos, "none"), saved)

(***************************************************************************)
(* set_format                                                               *)
(***************************************************************************)
RECURSIVE DepthBytes(_, _)
DepthBytes(depths, n) ==
    IF n = 0 THEN 0 ELSE (get_depth_bit_count(depths[n]) \div 8) + DepthBytes(depths, n - 1)

\* the checks set_format makes on the format, lines 138-154
FormatAccepted(format) ==
    LET bytes_per_block ==
            DepthBytes(format.channel_depths, CHANNEL_COUNT) * ((2 ^ format.block_size_po2) ^ 3)
        sectors_per_block == ((bytes_per_block - 1) \div format.sector_size) + 1
        max_potential_sectors == volume(format.region_size) * sectors_per_block
    IN  /\ \A a \in 1..3 : format.region_size[a] >= 0 /\ format.region_size[a] < MAX_BLOCKS_ACROSS
        /\ format.block_size_po2 > 0
        /\ sectors_per_block <= MAX_SECTOR_COUNT
        /\ max_potential_sectors <= MAX_SECTOR_INDEX

\* the checks of set_format, lines 136-154
SetFormatAccepts(format) == file_access = "" /\ FormatAccepted(format)

\* line 158: _header.blocks.resize(region_size.volume())
ResizeTable(blocks, n) == Resize(blocks, n)

\* lines 157-158
StageFormat(h, format) ==
    [h EXCEPT !.format = format, !.blocks = ResizeTable(h.blocks, volume(format.region_size))]

SetFormat(format) ==
    /\ CanCall
    /\ IF SetFormatAccepts(format)
       THEN Update(disk, file_access, file_path,
                   [CurSt EXCEPT !.header = StageFormat(header, format)],
                   sectors, leaked, FALSE, Call("set_format", "true", NoPos, "none"), saved)
       ELSE Update(disk, file_access, file_path, CurSt, sectors, leaked, FALSE,
                   Call("set_format", "false", NoPos, "none"), saved)

(***************************************************************************)
(* open                                                                     *)
(***************************************************************************)
\* an open() call that returns an error: the instance is left closed
OpenFailed(d, fpath, st, lk, ret, kind, sv) ==
    Update(d, "", fpath, st, << >>, lk, ret = CRASH, Call("open", ret, NoPos, kind), sv)

\* lines 65-71 and 78-107: the file exists, r being what load_header returned
OpenExisting(d, fpath, closed, r) ==
    IF r.err # OK
    THEN OpenFailed(d, fpath, [closed EXCEPT !.header = r.header], leaked, r.err, "existing",
                    saved)
    ELSE Update(d, fpath, fpath, [closed EXCEPT !.header = r.header, !.begin = r.begin],
                BuildSectors(r.header), leaked, FALSE, Call("open", OK, NoPos, "existing"),
                saved)

\* lines 46-60 and 78-107: the file was created, r being what save_header returned
OpenCreated(d, fpath, r) ==
    IF r.crash \/ ~r.ok
    THEN OpenFailed(WithBytes(d, fpath, r.st.bytes), fpath, r.st, leaked + 1,
                    IF r.crash THEN CRASH ELSE ERR_FILE_CANT_WRITE, "created",
                    [saved EXCEPT ![fpath] = NothingSaved])
    ELSE Update(WithBytes(d, fpath, r.st.bytes), fpath, fpath, r.st,
                BuildSectors(r.st.header), leaked, FALSE, Call("open", OK, NoPos, "created"),
                [saved EXCEPT ![fpath] = NothingSaved])

\* open(fpath, create_if_not_found); dir_ok: check_directory_created succeeds
Open(fpath, create_if_not_found) ==
    /\ CanCall
    /\ \E c \in {CloseOp} :
       \E d1 \in {DiskAfterClose(c)} :
       \E closed \in {[c.st EXCEPT !.bytes = << >>]} :
         IF c.crash THEN OpenFailed(d1, fpath, closed, leaked, CRASH, "none", saved)
         ELSE IF d1[fpath].exists
         THEN \E r \in {LoadHeader(closed.header, d1[fpath].bytes)} :
                OpenExisting(d1, fpath, closed, r)
         ELSE IF ~create_if_not_found
         THEN OpenFailed(d1, fpath, closed, leaked, ERR_FILE_NOT_FOUND, "none", saved)
         ELSE \E dir_ok \in BOOLEAN :
                IF ~dir_ok
                THEN OpenFailed(d1, fpath, closed, leaked, ERR_CANT_CREATE, "none", saved)
                ELSE \E r \in {SaveHeader(closed, fpath, 1)} : OpenCreated(d1, fpath, r)

(***************************************************************************)
(* save_header and migrate_to_latest on their own, called on an instance   *)
(* whose header holds any version value; last.n is the number of           *)
(* save_header calls nested inside the call                                *)
(***************************************************************************)
\* values of the uint8_t _header.version: load_header (line 555) assigns
\* whatever byte the file holds
VersionValues == {0, FORMAT_VERSION_LEGACY_1, FORMAT_VERSION_LEGACY_2, FORMAT_VERSION, 4, 255}

MigrationFormats ==
    {StagedFormat, RejectedFormat, [StagedFormat EXCEPT !.has_palette = TRUE]}

MigrationInit ==
    /\ header \in [version : VersionValues, format : MigrationFormats,
                    blocks : {StoredTable, << 0, 0, 0 >>}]
    /\ \E bytes \in {<< >>, LegacyFile(FORMAT_VERSION_LEGACY_2), CurrentFile} :
         disk = [p \in Paths |-> IF p = "a" THEN [exists |-> TRUE, bytes |-> bytes]
                                 ELSE Missing]
    /\ saved = [p \in Paths |-> NothingSaved]
    /\ debug_enabled \in BOOLEAN
    /\ format_staged = TRUE
    /\ file_access = "a"
    /\ file_path \in {"", "a"}
    /\ header_modified \in BOOLEAN
    /\ blocks_begin_offset = 0
    /\ sectors = << >>
    /\ leaked = 0
    /\ crashed = FALSE
    /\ last = [op |-> "new", ret |-> OK, pos |-> NoPos, kind |-> "none", n |-> 0]
    /\ wlog = {}
    /\ nops = 0

\* the next state after save_header or migrate_to_latest returned r
MigrationReturns(op, r) ==
    Update(WithBytes(disk, file_access, r.st.bytes), file_access, file_path, r.st,
           sectors, leaked, r.crash,
           [Call(op, IF r.crash THEN CRASH ELSE IF r.ok THEN "true" ELSE "false",
                 NoPos, "none") EXCEPT !.n = r.nest],
           saved)

MigrationSaveHeader ==
    /\ CanCall
    /\ \E r \in {SaveHeader(CurSt, file_path, 0)} : MigrationReturns("save_header", r)

MigrationMigrateToLatest ==
    /\ CanCall
    /\ \E r \in {MigrateToLatest(CurSt, file_path, 0)} :
         MigrationReturns("migrate_to_latest", r)

MigrationNext == MigrationSaveHeader \/ MigrationMigrateToLatest

SpecMigration == MigrationInit /\ [][MigrationNext]_vars

(***************************************************************************)
(* get_sector_count_from_bytes and pad_to_sector_size on their own.  The   *)
(* call of get_sector_count_from_bytes is recorded with its argument in    *)
(* last.pos and its result in last.ret, both as the four bytes of a        *)
(* uint32_t; the call of pad_to_sector_size follows a write of last.n      *)
(* bytes at the end of the sectors                                         *)
(***************************************************************************)
SectorSizes == {1, 2, 8, DEFAULT_SECTOR_SIZE, 65535}

\* arguments of get_sector_count_from_bytes: the sizes around one and two
\* sectors, and sizes up to 2^32 - 1
SizesInBytes ==
    ({<< a, b, c, d >> : a \in {0, 1, 255}, b \in {0, 1, 255}, c \in {0, 1, 255},
                         d \in {0, 1, 255}}
        \cup {U32LE(w) : w \in (1..17) \cup {511, 512, 513, 1023, 1024, 1025, 65534}})
      \ {<< 0, 0, 0, 0 >>}

\* bytes save_block writes before it calls pad_to_sector_size (written_size)
WrittenSizes == (1..17) \cup {511, 512, 513, 1024}

\* the bytes written for the block
WrittenBytes(written_size) == Fill(9, written_size)

\* the file before the write: the header and k full sectors of one block
SectorMathFile(h, k) == HeaderBytes(h) \o Fill(7, k * h.format.sector_size)

SectorMathInit ==
    /\ \E ss \in SectorSizes, k \in 0..MaxSectors :
         /\ header = [version |-> FORMAT_VERSION,
                      format |-> [StagedFormat EXCEPT !.sector_size = ss],
                      blocks |-> << IF k = 0 THEN 0 ELSE set_sector_count(0, k), 0, 0 >>]
         /\ sectors = [i \in 1..k |-> << 0, 0, 0 >>]
         /\ disk = [p \in Paths |->
                      IF p = "a" THEN [exists |-> TRUE, bytes |-> SectorMathFile(header, k)]
                      ELSE Missing]
         /\ blocks_begin_offset = Len(HeaderBytes(header))
    /\ saved = [p \in Paths |-> NothingSaved]
    /\ debug_enabled \in BOOLEAN
    /\ format_staged = TRUE
    /\ file_access = "a"
    /\ file_path = "a"
    /\ header_modified = FALSE
    /\ leaked = 0
    /\ crashed = FALSE
    /\ last = [op |-> "new", ret |-> OK, pos |-> NoPos, kind |-> "none", n |-> 0]
    /\ wlog = {}
    /\ nops = 0

SectorMathCount ==
    /\ CanCall /\ last.op = "new"
    /\ \E size_in_bytes \in SizesInBytes :
         Update(disk, file_access, file_path, CurSt, sectors, leaked, FALSE,
                Call("get_sector_count_from_bytes",
                     SectorCountFromBytes(size_in_bytes, header.format.sector_size),
                     size_in_bytes, "none"),
                saved)

\* lines 228-241: written_size bytes go to the end of the sectors, then the
\* padding
SectorMathPad ==
    /\ CanCall /\ last.op = "new"
    /\ \E written_size \in WrittenSizes :
       \E block_offset \in {blocks_begin_offset + Len(sectors) * header.format.sector_size} :
       \E st \in {pad_to_sector_size(
                     [CurSt EXCEPT !.bytes = StoreBuf(@, block_offset,
                                                      WrittenBytes(written_size))],
                     block_offset + written_size)} :
         Update(WithBytes(disk, file_access, st.bytes), file_access, file_path, st,
                sectors, leaked, FALSE,
                [Call("pad_to_sector_size", OK, NoPos, "none") EXCEPT !.n = written_size],
                saved)

SectorMathNext == SectorMathCount \/ SectorMathPad

SpecSectorMath == SectorMathInit /\ [][SectorMathNext]_vars

(***************************************************************************)
(* get_block_index_in_header and get_block_position_from_index on their    *)
(* own: last.pos is the position and last.n the index, one the argument    *)
(* and the other the result                                                *)
(***************************************************************************)
\* the longest axis of the regions tried
MaxAxis == 4

RegionSizes ==
    {<< x, y, z >> : x \in 1..MaxAxis, y \in 1..MaxAxis, z \in 1..MaxAxis}
        \cup {DefaultFormat.region_size}

\* the positions inside the region R
PositionsIn(R) == {<< x, y, z >> : x \in 0..(R[1] - 1), y \in 0..(R[2] - 1), z \in 0..(R[3] - 1)}

IndexInit ==
    /\ \E R \in RegionSizes :
         header = [version |-> FORMAT_VERSION,
                   format |-> [StagedFormat EXCEPT !.region_size = R],
                   blocks |-> << >>]
    /\ disk = [p \in Paths |-> Missing]
    /\ saved = [p \in Paths |-> NothingSaved]
    /\ debug_enabled \in BOOLEAN
    /\ format_staged = TRUE
    /\ file_access = ""
    /\ file_path = ""
    /\ header_modified = FALSE
    /\ blocks_begin_offset = 0
    /\ sectors = << >>
    /\ leaked = 0
    /\ crashed = FALSE
    /\ last = [op |-> "new", ret |-> OK, pos |-> NoPos, kind |-> "none", n |-> 0]
    /\ wlog = {}
    /\ nops = 0

IndexOfPosition ==
    /\ CanCall /\ last.op = "new"
    /\ \E rpos \in PositionsIn(header.format.region_size) :
         Update(disk, file_access, file_path, CurSt, sectors, leaked, FALSE,
                [Call("get_block_index_in_header", OK, rpos, "none")
                   EXCEPT !.n = get_block_index_in_header(header, rpos)],
                saved)

PositionOfIndex ==
    /\ CanCall /\ last.op = "new"
    /\ \E i \in 0..(volume(header.format.region_size) - 1) :
         Update(disk, file_access, file_path, CurSt, sectors, leaked, FALSE,
                [Call("get_block_position_from_index", OK,
                      get_block_position_from_index(header, i), "none")
                   EXCEPT !.n = i],
                saved)

IndexNext == IndexOfPosition \/ PositionOfIndex

SpecIndex == IndexInit /\ [][IndexNext]_vars

(***************************************************************************)
(* load_block, has_block, get_header_block_count                            *)
(***************************************************************************)
LoadBlockResult(position) ==
    IF file_access = "" THEN [ret |-> ERR_FILE_CANT_READ, data |-> << >>]
    ELSE LoadBlockOp(header, disk[file_access].bytes, blocks_begin_offset, position)

LoadBlock(position) ==
    /\ CanCall
    /\ \E r \in {LoadBlockResult(position)} :
         Observe(r.ret = CRASH, Call("load_block", r.ret, position, "none"))

\* has_block(position), lines 592-596: the values the call can return; the table
\* is read without a bounds check, so past its end the call returns whatever
\* the read produces, or faults
HasBlockResults(position) ==
    IF file_access = "" THEN {"false"}
    ELSE IF get_block_index_in_header(header, position) >= Len(header.blocks)
    THEN {"true", "false", CRASH}
    ELSE IF header.blocks[get_block_index_in_header(header, position) + 1] # 0 THEN {"true"}
    ELSE {"false"}

HasBlock(position) ==
    /\ CanCall
    /\ \E ret \in HasBlockResults(position) :
         Observe(ret = CRASH, Call("has_block", ret, position, "none"))

GetHeaderBlockCount ==
    /\ CanCall
    /\ Observe(FALSE, [Call("get_header_block_count", OK, NoPos, "none")
                         EXCEPT !.n = IF file_access = "" THEN 0 ELSE Len(header.blocks)])

(***************************************************************************)
(* save_block                                                               *)
(***************************************************************************)
BlockKind(block) ==
    IF block.null THEN "null"
    ELSE IF block.edge # 2 ^ header.format.block_size_po2 THEN "edge"
    ELSE IF block.channel_depths # header.format.channel_depths THEN "depths"
    ELSE "ok"

\* the program with lines 216-219 left out
WriteWithoutMigration(st, path) == Done(st, 0)

\* lines 216-219: migration before the write
MigrateBeforeWrite(st, path) ==
    IF NeedsMigration(st.header) THEN MigrateToLatest(st, path, 0) ELSE Done(st, 0)

\* the value save_block returns, r being what the write left
Saved(r) == [ret |-> IF r.crash THEN CRASH ELSE OK, st |-> r.st, sectors |-> r.sectors]

\* lines 221-316, once the file is at the current version
SaveBlockData(st, secs, position, data) ==
    LET lut_index == get_block_index_in_header(st.header, position)
    IN  IF lut_index >= Len(st.header.blocks)
        THEN [ret |-> ERR_INVALID_PARAMETER, st |-> st, sectors |-> secs]
        ELSE IF st.header.format.sector_size = 0
        THEN [ret |-> CRASH, st |-> st, sectors |-> secs]
        ELSE IF st.header.blocks[lut_index + 1] = 0
        THEN Saved(SaveNewBlock(st, secs, position, lut_index, data))
        ELSE Saved(SaveExistingBlock(st, secs, position, lut_index, data))

\* the next state when save_block returns ret
SaveBlockReturns(position, block, st, secs, ret, sv) ==
    Update(IF file_access = "" THEN disk ELSE WithBytes(disk, file_access, st.bytes),
           file_access, file_path, st, secs, leaked, ret = CRASH,
           Call("save_block", ret, position, BlockKind(block)), sv)

\* lines 221-316, m being what the migration left
SaveMigrated(position, block, m) ==
    IF m.crash THEN SaveBlockReturns(position, block, m.st, sectors, CRASH, saved)
    ELSE IF ~m.ok THEN SaveBlockReturns(position, block, m.st, sectors, ERR_UNAVAILABLE, saved)
    ELSE \E r \in {SaveBlockData(m.st, sectors, position, block.data)} :
           SaveBlockReturns(position, block, r.st, r.sectors, r.ret,
                            IF r.ret = OK
                            THEN [saved EXCEPT ![file_access][position] = block.data]
                            ELSE saved)

\* the program with the migration of lines 216-219 run before the block is checked
SaveBlockMigratesFirst(position, block) ==
    /\ CanCall
    /\ IF file_access = ""
       THEN SaveBlockReturns(position, block, CurSt, sectors,
                             IF block.null \/ ~verify_format(header, block)
                             THEN ERR_INVALID_PARAMETER ELSE ERR_FILE_CANT_WRITE, saved)
       ELSE \E m \in {MigrateBeforeWrite(CurSt, file_path)} :
              IF block.null \/ ~verify_format(header, block)
              THEN SaveBlockReturns(position, block, m.st, sectors,
                                    IF m.crash THEN CRASH ELSE ERR_INVALID_PARAMETER, saved)
              ELSE SaveMigrated(position, block, m)

SaveBlock(position, block) ==
    /\ CanCall
    /\ IF block.null \/ ~verify_format(header, block)
       THEN SaveBlockReturns(position, block, CurSt, sectors, ERR_INVALID_PARAMETER, saved)
       ELSE IF file_access = ""
       THEN SaveBlockReturns(position, block, CurSt, sectors, ERR_FILE_CANT_WRITE, saved)
       ELSE \E m \in {MigrateBeforeWrite(CurSt, file_path)} : SaveMigrated(position, block, m)

(***************************************************************************)
(* The specification                                                        *)
(***************************************************************************)
Next ==
    \/ \E format \in FormatInputs : SetFormat(format)
    \/ \E fpath \in Paths, create_if_not_found \in BOOLEAN : Open(fpath, create_if_not_found)
    \/ Close
    \/ \E position \in Positions : LoadBlock(position)
    \/ \E position \in Positions : HasBlock(position)
    \/ GetHeaderBlockCount
    \/ \E position \in Positions, block \in Blocks : SaveBlock(position, block)

Spec == Init /\ [][Next]_vars

\* positions outside the staged region: past the end of the x axis, past the
\* end of the y axis, and below 0
OutsidePositions == {<< 3, 0, 0 >>, << 0, 1, 0 >>, << -1, 0, 0 >>}

AnyPositions == Positions \cup OutsidePositions

InitCurrentFile ==
    Constructed({Missing, [exists |-> TRUE, bytes |-> StoredFile(FORMAT_VERSION)]},
                StoredPayloads)

NextAnyPosition ==
    \/ \E format \in FormatInputs : SetFormat(format)
    \/ \E fpath \in Paths, create_if_not_found \in BOOLEAN : Open(fpath, create_if_not_found)
    \/ Close
    \/ \E position \in AnyPositions : LoadBlock(position)
    \/ \E position \in AnyPositions : HasBlock(position)
    \/ GetHeaderBlockCount
    \/ \E position \in AnyPositions, block \in Blocks : SaveBlock(position, block)

\* the runs whose callers also hand in positions outside the region
SpecAnyPosition == InitCurrentFile /\ [][NextAnyPosition]_vars

\* the runs on the file a caller that never stages a format can open
SpecDefaultFormat == InitDefaultFormat /\ [][Next]_vars

(***************************************************************************)
(* The header codec on its own: save_header writes a header into an empty  *)
(* file, load_header reads the file into a newly constructed instance      *)
(***************************************************************************)
MixedDepths == [i \in 1..CHANNEL_COUNT |-> (i - 1) % DEPTH_COUNT]

CodecPalette ==
    [i \in 1..PALETTE_ENTRIES |-> << i % 256, (2 * i) % 256, 255 - (i % 256), 255 >>]

\* formats set_format accepts
CodecFormats ==
    {f \in [block_size_po2 : {1, DEFAULT_BLOCK_SIZE_PO2},
            region_size : {<< 2, 1, 1 >>, << 1, 3, 1 >>, << 0, 1, 2 >>},
            channel_depths : {AllDepths8, MixedDepths},
            sector_size : {8, DEFAULT_SECTOR_SIZE, 65535},
            has_palette : BOOLEAN,
            palette : {DefaultFormat.palette, CodecPalette}] : FormatAccepted(f)}

\* block-info entries: absent, sector 2 count 1, and the largest whose bytes
\* TLC can add up (sector 8388607 count 255)
CodecEntries == {0, set_sector_count(set_sector_index(0, 2), 1), 2147483647}

CodecHeaders ==
    UNION {{[version |-> FORMAT_VERSION, format |-> f, blocks |-> t] :
              t \in [1..volume(f.region_size) -> CodecEntries]} : f \in CodecFormats}

CodecInit ==
    /\ header \in CodecHeaders
    /\ disk = [p \in Paths |-> IF p = "a" THEN [exists |-> TRUE, bytes |-> << >>] ELSE Missing]
    /\ saved = [p \in Paths |-> NothingSaved]
    /\ debug_enabled \in BOOLEAN
    /\ format_staged = TRUE
    /\ file_access = "a"
    /\ file_path = "a"
    /\ header_modified = TRUE
    /\ blocks_begin_offset = 0
    /\ sectors = << >>
    /\ leaked = 0
    /\ crashed = FALSE
    /\ last = [op |-> "new", ret |-> OK, pos |-> NoPos, kind |-> "none", n |-> 0]
    /\ wlog = {}
    /\ nops = 0

\* save_header(f) on the open file
CodecSaveHeader ==
    /\ CanCall /\ last.op = "new"
    /\ \E r \in {SaveHeader(CurSt, file_path, 1)} :
         Update(WithBytes(disk, file_access, r.st.bytes), file_access, file_path, r.st,
                sectors, leaked, r.crash,
                Call("save_header",
                     IF r.crash THEN CRASH ELSE IF r.ok THEN OK ELSE ERR_FILE_CANT_WRITE,
                     NoPos, "none"),
                saved)

\* load_header(f) of that file on a newly constructed instance
CodecLoadHeader ==
    /\ CanCall /\ last.op = "save_header" /\ last.ret = OK
    /\ \E r \in {LoadHeader(ConstructedHeader, disk[file_access].bytes)} :
         Update(disk, file_access, file_path,
                [CurSt EXCEPT !.header = r.header, !.begin = r.begin, !.modified = FALSE],
                sectors, leaked, FALSE, Call("load_header", r.err, NoPos, "none"), saved)

CodecNext == CodecSaveHeader \/ CodecLoadHeader

SpecCodec == CodecInit /\ [][CodecNext]_vars

(***************************************************************************)
(* Properties                                                               *)
(***************************************************************************)
IsOpen == file_access # "" /\ ~crashed

InRange(h, position) ==
    /\ \A a \in 1..3 : position[a] >= 0 /\ position[a] < h.format.region_size[a]
    /\ get_block_index_in_header(h, position) < Len(h.blocks)

\* the entry of the block-info table for an in-range position
BlockInfoAt(h, position) == h.blocks[get_block_index_in_header(h, position) + 1]

IsPresent(h, position) == InRange(h, position) /\ BlockInfoAt(h, position) # 0

\* C1: on an open file, load_block of every position a payload was saved at
\* returns OK and the payload saved there last, whatever saves of other blocks
\* (new, same size, shrinking, growing) moved its sectors since
C1_LoadReturnsLastSaved ==
    IsOpen =>
        \A position \in Positions :
            saved[file_access][position] # NoPayload =>
                LoadBlockResult(position) = [ret |-> OK, data |-> saved[file_access][position]]

\* a shrinking overwrite of block (1,0,0) has moved the sector of block (0,0,0)
\* from sector 2 to sector 1, and (0,0,0) loads the payload saved before
C1_Witness ==
    /\ IsOpen
    /\ last.op = "save_block" /\ last.ret = OK /\ last.pos = << 1, 0, 0 >>
    /\ get_sector_count(BlockInfoAt(header, << 1, 0, 0 >>)) = 1
    /\ get_sector_index(BlockInfoAt(header, << 0, 0, 0 >>)) = 1
    /\ saved[file_access][<< 0, 0, 0 >>] = Payload(1, ShortLength)
    /\ LoadBlockResult(<< 0, 0, 0 >>) = [ret |-> OK, data |-> Payload(1, ShortLength)]

\* C2: on an open file the sector map equals what open() derives from the
\* block-info table
C2_SectorMapDerived == IsOpen => sectors = BuildSectors(header)

\* a growing overwrite of block (1,0,0) has moved it behind block (0,0,0), and
\* the sector map lists (0,0,0) first
C2_Witness ==
    /\ IsOpen
    /\ last.op = "save_block" /\ last.ret = OK /\ last.pos = << 1, 0, 0 >>
    /\ IsPresent(header, << 0, 0, 0 >>)
    /\ get_sector_index(BlockInfoAt(header, << 0, 0, 0 >>)) = 0
    /\ get_sector_index(BlockInfoAt(header, << 1, 0, 0 >>)) > 0
    /\ sectors # << >> /\ sectors[1] = << 0, 0, 0 >>
    /\ sectors = BuildSectors(header)

SectorRange(info) ==
    get_sector_index(info) .. (get_sector_index(info) + get_sector_count(info) - 1)

PresentIndices(h) == {i \in 1..Len(h.blocks) : h.blocks[i] # 0}

\* C3: on an open file the sector ranges of the present blocks are pairwise
\* disjoint, end inside the sector map, and cover it without a gap
C3_SectorRangesPartition ==
    IsOpen =>
        /\ \A i, j \in PresentIndices(header) :
               i # j => SectorRange(header.blocks[i]) \cap SectorRange(header.blocks[j]) = {}
        /\ \A i \in PresentIndices(header) :
               get_sector_index(header.blocks[i]) + get_sector_count(header.blocks[i])
                   <= Len(sectors)
        /\ \A s \in 0..(Len(sectors) - 1) :
               \E i \in PresentIndices(header) : s \in SectorRange(header.blocks[i])

\* what open() finds after close() left c: the header r load_header returned
\* holds the table the instance held, the sector map derived from it is the
\* sector map the instance held, and every position loads what it loaded
ReopenedSame(c, r) ==
    /\ r.err = OK
    /\ r.header.blocks = header.blocks
    /\ BuildSectors(r.header) = sectors
    /\ \A position \in Positions :
           LoadBlockOp(r.header, c.st.bytes, r.begin, position) = LoadBlockResult(position)

\* c being what close() leaves: what open() of the same path then reads
ClosedAndReopened(c) ==
    (c.err = OK /\ ~c.crash) => ReopenedSame(c, LoadHeader(c.st.header, c.st.bytes))

\* C4: in every state of an open file, close() returning OK followed by open()
\* of the same path gives back the block-info table, the sector map and the
\* result of load_block at every position that the instance has now
C4_ReopenPreserves == IsOpen => ClosedAndReopened(CloseOp)

\* the position lies inside the region of the format
InRegion(h, position) ==
    \A a \in 1..3 : position[a] >= 0 /\ position[a] < h.format.region_size[a]

\* C5: after an open() that created the file, the sector map is empty and
\* every position of the region is absent: has_block returns false and
\* load_block returns ERR_DOES_NOT_EXIST, whatever the instance did before
C5_CreatedFileIsEmpty ==
    (IsOpen /\ last.op = "open" /\ last.ret = OK /\ last.kind = "created") =>
        /\ sectors = << >>
        /\ \A position \in Positions :
               InRegion(header, position) =>
                   /\ HasBlockResults(position) = {"false"}
                   /\ LoadBlockResult(position).ret = ERR_DOES_NOT_EXIST

\* a step of set_format
SetFormatStep == last'.op = "set_format" /\ nops' = nops + 1

\* C6: a set_format call that returns true leaves a table of
\* region_size.volume() entries, all absent; a set_format call made while a
\* file is open returns false and changes neither the format nor the table
C6_SetFormatResetsTable ==
    [][SetFormatStep =>
          /\ last'.ret = "true" =>
                 /\ Len(header'.blocks) = volume(header'.format.region_size)
                 /\ \A i \in 1..Len(header'.blocks) : header'.blocks[i] = 0
          /\ file_access # "" => (last'.ret = "false" /\ header' = header)]_vars

\* what load_block(position) returns once the file is closed and opened again
LoadAfterReopen(c, r, position) ==
    IF c.crash THEN [ret |-> CRASH, data |-> << >>]
    ELSE IF r.err # OK THEN [ret |-> ERR_FILE_CANT_READ, data |-> << >>]
    ELSE LoadBlockOp(r.header, c.st.bytes, r.begin, position)

ReopenedLoad(position) ==
    LoadAfterReopen(CloseOp, LoadHeader(CloseOp.st.header, CloseOp.st.bytes), position)

\* a save_block call that returns OK on an open version-2 file: the first save
\* after the file was opened with the staged format
MigratingSave ==
    /\ IsOpen /\ header.version = FORMAT_VERSION_LEGACY_2
    /\ last'.op = "save_block" /\ last'.ret = OK /\ nops' = nops + 1

OtherPresent == {p \in Positions \ {last'.pos} : IsPresent(header, p)}

SectorsOf(secs, p) == {s \in 1..Len(secs) : secs[s] = p}

\* version 3, the header longer by the format part, and the payloads of the
\* other blocks, now and after close and reopen
MigrationKeepsPayloads ==
    /\ header'.version = FORMAT_VERSION
    /\ blocks_begin_offset' = blocks_begin_offset
           + (get_header_size_v3(header.format)
                - (MAGIC_AND_VERSION_SIZE + 4 * volume(header.format.region_size)))
    /\ \E c \in {CloseOp'} :
       \E r \in {LoadHeader(c.st.header, c.st.bytes)} :
         \A p \in OtherPresent :
           /\ LoadBlockResult(p).ret = OK
           /\ LoadBlockResult(p)' = LoadBlockResult(p)
           /\ LoadAfterReopen(c, r, p) = LoadBlockResult(p)

\* C7 as stated: the save that migrates a version-2 file leaves the table
\* entries and the sector map entries of every other block unchanged
C7_MigrationKeepsOtherEntries ==
    [][MigratingSave =>
          /\ MigrationKeepsPayloads
          /\ \A p \in Positions \ {last'.pos} :
                 /\ BlockInfoAt(header', p) = BlockInfoAt(header, p)
                 /\ SectorsOf(sectors', p) = SectorsOf(sectors, p)]_vars

\* the sectors the save takes away in front of the blocks stored behind the
\* block saved: none for a new block or an overwrite of the same size, the
\* sectors in excess for a shrinking one, all of them for a growing one
SectorsTaken(old, new) ==
    IF old = 0 \/ get_sector_count(new) = get_sector_count(old) THEN 0
    ELSE IF get_sector_count(new) < get_sector_count(old)
    THEN get_sector_count(old) - get_sector_count(new)
    ELSE get_sector_count(old)

\* the entry of another block after the save: its sector count kept, its
\* sector index lowered by the sectors taken when it was stored behind
EntryAfterSave(info, old, new) ==
    IF old # 0 /\ get_sector_index(info) > get_sector_index(old)
    THEN set_sector_index(info, get_sector_index(info) - SectorsTaken(old, new))
    ELSE info

\* C7 amended: the save that migrates a version-2 file leaves version 3, the
\* header longer by the format part, every other block present with its
\* sector count, its sector index lowered by the sectors the save took away in
\* front of it, as many sector map entries as before, and its payload, now and
\* after close and reopen
C7_MigrationKeepsOtherBlocks ==
    [][MigratingSave =>
          /\ MigrationKeepsPayloads
          /\ \A p \in Positions \ {last'.pos} :
                 /\ BlockInfoAt(header', p) =
                        EntryAfterSave(BlockInfoAt(header, p), BlockInfoAt(header, last'.pos),
                                       BlockInfoAt(header', last'.pos))
                 /\ Cardinality(SectorsOf(sectors', p)) = Cardinality(SectorsOf(sectors, p))]_vars

\* the first save on the version-2 file was a shrinking overwrite of (1,0,0):
\* the file is version 3, block (0,0,0) moved from sector 2 to sector 1 and
\* loads its payload
C7_Witness ==
    /\ IsOpen /\ nops = 3
    /\ last.op = "save_block" /\ last.ret = OK /\ last.pos = << 1, 0, 0 >>
    /\ << "insert", FORMAT_VERSION_LEGACY_2 >> \in wlog
    /\ header.version = FORMAT_VERSION
    /\ blocks_begin_offset = get_header_size_v3(StagedFormat)
    /\ get_sector_count(BlockInfoAt(header, << 1, 0, 0 >>)) = 1
    /\ get_sector_index(BlockInfoAt(header, << 0, 0, 0 >>)) = 1
    /\ LoadBlockResult(<< 0, 0, 0 >>) = [ret |-> OK, data |-> Payload(1, ShortLength)]
    /\ ReopenedLoad(<< 0, 0, 0 >>) = [ret |-> OK, data |-> Payload(1, ShortLength)]

ReadStep == last'.op \in {"has_block", "load_block", "get_header_block_count"}

\* a call of close() that finds no header to save
CleanCloseStep ==
    /\ last'.op = "close" /\ nops' = nops + 1
    /\ ~(file_access # "" /\ header_modified)

\* a call of open() on a file that exists, the close() it starts with finding
\* no header to save
OpenExistingStep ==
    /\ last'.op = "open" /\ last'.kind = "existing" /\ nops' = nops + 1
    /\ ~(file_access # "" /\ header_modified)

\* C9 as stated, for the calls that return without an error: the calls that
\* never write leave the header version, the table, the sector map,
\* header_modified and the files unchanged
C9_NonWritingCallsChangeNothing ==
    [][(ReadStep \/ CleanCloseStep \/ (OpenExistingStep /\ last'.ret = OK)) =>
          /\ header'.version = header.version
          /\ header'.blocks = header.blocks
          /\ sectors' = sectors
          /\ header_modified' = header_modified
          /\ disk' = disk]_vars

\* the table stored in the file in front of offset begin
TableInFile(bytes, begin, n) == [i \in 1..n |-> Get32(bytes, begin - (4 * n) + (4 * (i - 1)))]

\* C9 amended: the calls that never write leave header_modified and the files
\* unchanged; has_block, load_block and get_header_block_count leave the header
\* and the sector map unchanged as well; close() leaves the header unchanged
\* and empties the sector map; an open() of an existing file that returns OK
\* leaves the version and the table stored in the file as the header, and the
\* sector map derived from that table
C9_NonWritingCallsWriteNothing ==
    [][(ReadStep \/ CleanCloseStep \/ OpenExistingStep) =>
          /\ header_modified' = header_modified
          /\ disk' = disk
          /\ ReadStep => (header' = header /\ sectors' = sectors)
          /\ CleanCloseStep => (header' = header /\ sectors' = << >>)
          /\ (OpenExistingStep /\ last'.ret = OK) =>
                 /\ header'.version = ByteAt(disk[file_access'].bytes, 4)
                 /\ header'.blocks = TableInFile(disk[file_access'].bytes, blocks_begin_offset',
                                                 Len(header'.blocks))
                 /\ sectors' = BuildSectors(header')]_vars

\* the version-2 file was opened with the staged format and closed: it is the
\* version-2 file it was, the header still holds version 2 and the table
\* read, and the sector map is empty
C9_Witness ==
    /\ last.op = "close" /\ last.ret = OK /\ file_access = "" /\ file_path = "b"
    /\ disk["b"].bytes = LegacyFile(FORMAT_VERSION_LEGACY_2)
    /\ header.version = FORMAT_VERSION_LEGACY_2
    /\ header.blocks = StoredTable
    /\ sectors = << >>
    /\ wlog = {}

\* a save_block call on an open file whose version is neither 2 nor 3
SaveOnUnknownVersion ==
    /\ IsOpen /\ header.version \notin {FORMAT_VERSION_LEGACY_2, FORMAT_VERSION}
    /\ last'.op = "save_block" /\ nops' = nops + 1

\* C10 as stated: every save_block call on an open file whose version is
\* neither 2 nor 3 returns ERR_UNAVAILABLE and changes nothing
C10_UnknownVersionUnavailable ==
    [][SaveOnUnknownVersion =>
          /\ last'.ret = ERR_UNAVAILABLE
          /\ UNCHANGED << header, sectors, header_modified, disk >>]_vars

\* C10 amended: such a call changes nothing and returns ERR_UNAVAILABLE when
\* the block is not null and matches the format, ERR_INVALID_PARAMETER otherwise
C10_UnknownVersionRejected ==
    [][SaveOnUnknownVersion =>
          /\ last'.ret = IF last'.kind = "ok" THEN ERR_UNAVAILABLE ELSE ERR_INVALID_PARAMETER
          /\ UNCHANGED << header, sectors, header_modified, disk >>]_vars

\* a block matching the format was handed to save_block on the open version-1
\* file, which returned ERR_UNAVAILABLE and left the file as it was
C10_Witness ==
    /\ IsOpen /\ file_access = "b"
    /\ last.op = "save_block" /\ last.kind = "ok" /\ last.ret = ERR_UNAVAILABLE
    /\ header.version = FORMAT_VERSION_LEGACY_1
    /\ disk["b"].bytes = LegacyFile(FORMAT_VERSION_LEGACY_1)
    /\ wlog = {}

\* a save_block call, with a block that is not null and matches the format, on
\* an open version-2 file, set_format never having returned true on the instance
SaveWithoutStagedFormat ==
    /\ IsOpen /\ ~format_staged /\ header.version = FORMAT_VERSION_LEGACY_2
    /\ last'.op = "save_block" /\ last'.kind = "ok" /\ nops' = nops + 1

\* C11: save_block on a version-2 file opened by an instance on which
\* set_format was never called returns ERR_UNAVAILABLE, does not migrate and
\* leaves the header, the sector map and the file as they were
C11_NoMigrationWithoutFormat ==
    [][SaveWithoutStagedFormat =>
          /\ last'.ret = ERR_UNAVAILABLE
          /\ header'.version = FORMAT_VERSION_LEGACY_2
          /\ UNCHANGED << header, sectors, header_modified, disk >>]_vars

\* an open() call that finds the file and returns the error load_header
\* returned for its content
RejectedOpenStep ==
    /\ last'.op = "open" /\ last'.kind = "existing" /\ last'.ret = ERR_PARSE_ERROR
    /\ nops' = nops + 1

\* C12: an open() call that load_header fails leaves the instance not open and
\* its format, header version and block-info table as they were before the call
C12_RejectedOpenChangesNothing ==
    [][RejectedOpenStep =>
          /\ file_access' = ""
          /\ header'.format = header.format
          /\ header'.version = header.version
          /\ header'.blocks = header.blocks]_vars

\* the size of the header as encoded for its version: magic, version and table
\* for the legacy versions, get_header_size_v3 for version 3
EncodedHeaderSize(h) ==
    IF h.version = FORMAT_VERSION THEN get_header_size_v3(h.format)
    ELSE MAGIC_AND_VERSION_SIZE + 4 * volume(h.format.region_size)

\* C13: whenever a file is open, blocks_begin_offset equals the encoded header
\* size for the header's version and format
C13_BeginIsHeaderSize == IsOpen => blocks_begin_offset = EncodedHeaderSize(header)

\* a save_block call that returns OK (a migration of the file, if any, included)
SavedStep == last'.op = "save_block" /\ last'.ret = OK /\ nops' = nops + 1

\* the sector map ends inside the file
SectorsInFile(bytes, begin, secs, sector_size) == Len(bytes) >= begin + Len(secs) * sector_size

\* C14: after every save_block that returns OK, and so after every migration,
\* the file is at least blocks_begin_offset + sector_map.size() * sector_size
\* bytes long; no call makes a file shorter
C14_SectorsInsideFile ==
    [][/\ \A p \in Paths : disk[p].exists =>
              (disk'[p].exists /\ Len(disk'[p].bytes) >= Len(disk[p].bytes))
       /\ SavedStep => SectorsInFile(disk'[file_access'].bytes, blocks_begin_offset',
                                     sectors', header'.format.sector_size)]_vars

\* the headers agree in everything save_header stores: the version, the
\* format, the palette when there is one, and every block-info entry
SameHeader(g, h) ==
    /\ g.version = h.version
    /\ g.format.block_size_po2 = h.format.block_size_po2
    /\ g.format.region_size = h.format.region_size
    /\ g.format.channel_depths = h.format.channel_depths
    /\ g.format.sector_size = h.format.sector_size
    /\ g.format.has_palette = h.format.has_palette
    /\ h.format.has_palette => g.format.palette = h.format.palette
    /\ g.blocks = h.blocks

\* C15: save_header of a version-3 header whose format set_format accepts and
\* whose table has region_size.volume() entries returns true, and load_header
\* of the file it wrote returns OK, the same header and the same
\* blocks_begin_offset
C15_HeaderRoundTrip ==
    [][/\ (last'.op = "save_header" /\ nops' = nops + 1) =>
              (last'.ret = OK /\ blocks_begin_offset' = get_header_size_v3(header.format))
       /\ (last'.op = "load_header" /\ nops' = nops + 1) =>
              /\ last'.ret = OK
              /\ SameHeader(header', header)
              /\ blocks_begin_offset' = blocks_begin_offset]_vars

\* a header with a palette, mixed depths, sectors of 512 bytes and a table of
\* three entries, the largest one among them, was written and read back
C15_Witness ==
    /\ last.op = "load_header" /\ last.ret = OK
    /\ header.format.has_palette /\ header.format.palette = CodecPalette
    /\ header.format.channel_depths = MixedDepths
    /\ header.format.sector_size = DEFAULT_SECTOR_SIZE
    /\ header.format.region_size = << 1, 3, 1 >>
    /\ header.blocks = << 2147483647, 0, set_sector_count(set_sector_index(0, 2), 1) >>
    /\ blocks_begin_offset = get_header_size_v3(header.format)
    /\ Len(disk[file_access].bytes) = blocks_begin_offset

\* a save_block call on an open file that returns OK, and the entry its
\* position had before the call
SavedInRange == IsOpen /\ SavedStep /\ InRange(header, last'.pos)
OldEntry == BlockInfoAt(header, last'.pos)

\* the sectors W bytes take: W / sector_size, rounded up
SectorsFor(W, sector_size) == (W + sector_size - 1) \div sector_size

\* the sector count of the payload the call stored at the position
NewCount == SectorsFor(SIZEOF_INT + Len(saved'[file_access'][last'.pos]), header'.format.sector_size)

\* C16: a save_block of a block whose BlockInfo is absent sets that BlockInfo to
\* sector_index = the length the sector map had and sector_count =
\* ceil((4 + payload length) / sector_size), appends the position that many
\* times to the sector map, sets header_modified, and changes no other
\* BlockInfo and no sector map entry there was
C16_NewBlockAppended ==
    [][(SavedInRange /\ OldEntry = 0) =>
          /\ header'.blocks =
                 [header.blocks EXCEPT ![get_block_index_in_header(header, last'.pos) + 1] =
                      set_sector_count(set_sector_index(0, Len(sectors)), NewCount)]
          /\ sectors' = sectors \o Fill(last'.pos, NewCount)
          /\ header_modified']_vars

\* block (2,0,0) was saved with a payload of two sectors into the stored file
\* that holds three sectors: it is in sectors 3-4, the other entries are as
\* they were stored
C16_Witness ==
    /\ IsOpen /\ last.op = "save_block" /\ last.ret = OK /\ last.pos = << 2, 0, 0 >>
    /\ header.blocks = << StoredTable[1], StoredTable[2],
                          set_sector_count(set_sector_index(0, 3), 2) >>
    /\ sectors = << << 1, 0, 0 >>, << 1, 0, 0 >>, << 0, 0, 0 >>, << 2, 0, 0 >>, << 2, 0, 0 >> >>
    /\ header_modified

\* the table after a save that took taken sectors away in front of the blocks
\* stored behind the block saved, and left that block the entry own
TableAfterSave(blocks, lut_index, old, own, taken) ==
    [i \in 1..Len(blocks) |->
        IF i = lut_index + 1 THEN own
        ELSE IF blocks[i] # 0 /\ get_sector_index(blocks[i]) > get_sector_index(old)
        THEN set_sector_index(blocks[i], get_sector_index(blocks[i]) - taken)
        ELSE blocks[i]]

\* C17: a save_block of a present block with fewer sectors than it had keeps
\* the block's sector_index, sets its sector_count to the new count, lowers by
\* old_count - new_count the sector_index of every present block stored
\* behind it, leaves every other block unchanged, shortens the sector map by
\* old_count - new_count, and sets header_modified
C17_ShrinkCompacts ==
    [][(SavedInRange /\ OldEntry # 0 /\ NewCount < get_sector_count(OldEntry)) =>
          /\ header'.blocks =
                 TableAfterSave(header.blocks, get_block_index_in_header(header, last'.pos),
                                OldEntry, set_sector_count(OldEntry, NewCount),
                                get_sector_count(OldEntry) - NewCount)
          /\ Len(sectors') = Len(sectors) - (get_sector_count(OldEntry) - NewCount)
          /\ header_modified']_vars

\* block (1,0,0) of the stored file, in sectors 0-1, was saved with a payload
\* of one sector: it keeps sector 0, and block (0,0,0) moved from sector 2 to
\* sector 1
C17_Witness ==
    /\ IsOpen /\ last.op = "save_block" /\ last.ret = OK /\ last.pos = << 1, 0, 0 >>
    /\ header.blocks = << set_sector_count(set_sector_index(0, 1), 1),
                          set_sector_count(set_sector_index(0, 0), 1), 0 >>
    /\ sectors = << << 1, 0, 0 >>, << 0, 0, 0 >> >>
    /\ header_modified

\* C18: whenever a save_block of a present block with more sectors than it had
\* returns OK, the block owns the last new_count sectors of the sector map,
\* every other present block stored behind its old place has its sector_index
\* lowered by old_count, every other block is unchanged, the sector map is
\* longer by new_count - old_count, and header_modified is set
C18_GrowMovesToEnd ==
    [][(SavedInRange /\ OldEntry # 0 /\ NewCount > get_sector_count(OldEntry)) =>
          /\ header'.blocks =
                 TableAfterSave(header.blocks, get_block_index_in_header(header, last'.pos),
                                OldEntry,
                                set_sector_count(set_sector_index(0, Len(sectors') - NewCount),
                                                 NewCount),
                                get_sector_count(OldEntry))
          /\ Len(sectors') = Len(sectors) + NewCount - get_sector_count(OldEntry)
          /\ SubSeq(sectors', Len(sectors') - NewCount + 1, Len(sectors'))
                 = Fill(last'.pos, NewCount)
          /\ header_modified']_vars

\* block (1,0,0), in sector 0 in front of block (0,0,0), was saved with a
\* payload of two sectors: (0,0,0) moved from sector 1 to sector 0 and (1,0,0)
\* owns sectors 1-2, the last two of the sector map
C18_Witness ==
    /\ IsOpen /\ last.op = "save_block" /\ last.ret = OK /\ last.pos = << 1, 0, 0 >>
    /\ header.blocks = << set_sector_count(set_sector_index(0, 0), 1),
                          set_sector_count(set_sector_index(0, 1), 2), 0 >>
    /\ sectors = << << 0, 0, 0 >>, << 1, 0, 0 >>, << 1, 0, 0 >> >>
    /\ header_modified
    /\ nops = 3

\* the open file is one the program wrote with valid calls: a table of
\* region_size.volume() entries, the header of the size encoded, sector ranges
\* that partition the sector map, and every sector inside the file
UncorruptedFile ==
    /\ IsOpen
    /\ Len(header.blocks) = volume(header.format.region_size)
    /\ blocks_begin_offset = EncodedHeaderSize(header)
    /\ C3_SectorRangesPartition
    /\ SectorsInFile(disk[file_access].bytes, blocks_begin_offset, sectors,
                     header.format.sector_size)

\* C19: a save_block call with a block that is not null and matches the
\* format, at a position inside the region, on an uncorrupted open file never
\* stops at a CRASH_COND: it returns OK or an error code, for new blocks and
\* for same-size, shrinking and growing overwrites
C19_ValidSaveNeverCrashes ==
    [][(/\ UncorruptedFile
        /\ last'.op = "save_block" /\ last'.kind = "ok" /\ nops' = nops + 1
        /\ InRange(header, last'.pos)) => (last'.ret # CRASH /\ ~crashed')]_vars

\* a save_block call that returns OK for a present block with as many sectors
\* as it had
SameSizeSave == SavedInRange /\ OldEntry # 0 /\ NewCount = get_sector_count(OldEntry)

\* what a read finds in the bytes new equals what it found in old (0 past the
\* end of the file) at every offset below lo and from hi on
SameOutside(old, new, lo, hi) ==
    /\ Len(new) >= Len(old)
    /\ \E o \in {old \o Fill(0, Len(new) - Len(old))} :
         /\ SubSeq(new, 1, Min(lo, Len(new))) = SubSeq(o, 1, Min(lo, Len(new)))
         /\ SubSeq(new, hi + 1, Len(new)) = SubSeq(o, hi + 1, Len(new))

\* the bytes of the file from offset begin on
SectorArea(bytes, begin) == SubSeq(bytes, begin + 1, Len(bytes))

\* C20 as stated: a save_block of a present block with new_count = old_count
\* changes no BlockInfo, no sector map entry and not header_modified, and no
\* byte of the file outside that block's own sectors
C20_SameSizeWritesOwnSectors ==
    [][SameSizeSave =>
          /\ header'.blocks = header.blocks
          /\ sectors' = sectors
          /\ header_modified' = header_modified
          /\ SameOutside(disk[file_access].bytes, disk'[file_access].bytes,
                         blocks_begin_offset
                           + get_sector_index(OldEntry) * header.format.sector_size,
                         blocks_begin_offset
                           + (get_sector_index(OldEntry) + get_sector_count(OldEntry))
                               * header.format.sector_size)]_vars

\* C20 amended: such a save changes no BlockInfo, no sector map entry and not
\* header_modified, and no byte behind the header outside the block's own
\* sectors; on a version-3 file it changes no byte of the header either (on a
\* version-2 file the call first migrates, which rewrites the header)
C20_SameSizeKeepsOtherSectors ==
    [][SameSizeSave =>
          /\ header'.blocks = header.blocks
          /\ sectors' = sectors
          /\ header_modified' = header_modified
          /\ SameOutside(SectorArea(disk[file_access].bytes, blocks_begin_offset),
                         SectorArea(disk'[file_access].bytes, blocks_begin_offset'),
                         get_sector_index(OldEntry) * header.format.sector_size,
                         (get_sector_index(OldEntry) + get_sector_count(OldEntry))
                             * header.format.sector_size)
          /\ header.version = FORMAT_VERSION =>
                 /\ blocks_begin_offset' = blocks_begin_offset
                 /\ SubSeq(disk'[file_access].bytes, 1, blocks_begin_offset)
                        = SubSeq(disk[file_access].bytes, 1, blocks_begin_offset)]_vars

\* block (0,0,0) of the stored version-3 file, in sector 2 behind block
\* (1,0,0), was saved with another payload of one sector: the table, the
\* sector map and header_modified are as they were, sectors 0-1 hold what was
\* stored, and sector 2 starts with the new payload
C20_Witness ==
    /\ IsOpen /\ file_access = "b" /\ nops = 2
    /\ last.op = "save_block" /\ last.ret = OK /\ last.pos = << 0, 0, 0 >>
    /\ header.blocks = StoredTable
    /\ sectors = << << 1, 0, 0 >>, << 1, 0, 0 >>, << 0, 0, 0 >> >>
    /\ ~header_modified
    /\ wlog = {<< "sector", FORMAT_VERSION >>}
    /\ SubSeq(disk["b"].bytes, 1, blocks_begin_offset + 2 * StagedFormat.sector_size)
           = SubSeq(CurrentFile, 1, blocks_begin_offset + 2 * StagedFormat.sector_size)
    /\ LoadBlockResult(<< 0, 0, 0 >>) = [ret |-> OK, data |-> Payload(2, ShortLength)]

\* a save_block call handed a null block or a block that does not fit the format
RejectedBlockStep ==
    /\ last'.op = "save_block" /\ last'.kind \in {"null", "edge", "depths"}
    /\ nops' = nops + 1

\* C21: a save_block call with a null block, or with a block whose edge length
\* or channel depths differ from the format, returns INVALID_PARAMETER and
\* leaves the header (version, format, table), the sector map, header_modified,
\* blocks_begin_offset and every file unchanged, whatever the version of the
\* open file
C21_RejectedBlockChangesNothing ==
    [][RejectedBlockStep =>
          /\ last'.ret = ERR_INVALID_PARAMETER
          /\ UNCHANGED << header, sectors, header_modified, blocks_begin_offset, disk,
                          file_access, wlog >>]_vars

\* the stored version-2 file is open with its format staged, a block whose
\* channel depths differ was handed to save_block, and the file is still the
\* version-2 file
C21_Witness ==
    /\ IsOpen /\ file_access = "b" /\ format_staged
    /\ last.op = "save_block" /\ last.kind = "depths" /\ last.ret = ERR_INVALID_PARAMETER
    /\ header.version = FORMAT_VERSION_LEGACY_2
    /\ header.blocks = StoredTable
    /\ disk["b"].bytes = StoredFile(FORMAT_VERSION_LEGACY_2)
    /\ wlog = {}

\* position has a coordinate below 0 or not below the region size on its axis
OutsideRegion(h, position) ==
    \E a \in 1..3 : position[a] < 0 \/ position[a] >= h.format.region_size[a]

\* a save_block call on an open file with a block that fits the format, or a
\* load_block call on an open file, at a position outside the region
OutsideCallStep ==
    /\ IsOpen /\ OutsideRegion(header, last'.pos)
    /\ \/ last'.op = "save_block" /\ last'.kind = "ok" /\ nops' = nops + 1
       \/ last'.op = "load_block" /\ last' # last /\ nops' = nops

\* C22: load_block and save_block at a position outside the region return
\* INVALID_PARAMETER and leave the table, the sector map and the file as they were
C22_OutsidePositionRejected ==
    [][OutsideCallStep =>
          /\ last'.ret = ERR_INVALID_PARAMETER
          /\ UNCHANGED << header, sectors, header_modified, disk >>]_vars

\* save_header or migrate_to_latest was called
MigrationStep ==
    /\ last'.op \in {"save_header", "migrate_to_latest"}
    /\ nops' = nops + 1

\* C23: whatever the version value of the header, a call of save_header or
\* migrate_to_latest returns with at most one save_header call nested inside
\* it; a call nests one exactly when it migrates a version-2 header, which it
\* leaves at version 3; a header at version 3 stays there, and once bytes were
\* inserted into the file no later call inserts or nests again
C23_MigrationNestsOnce ==
    [][MigrationStep =>
          /\ last'.ret \in {"true", "false"}
          /\ last'.n <= 1
          /\ last'.n = 1 =>
                /\ header.version = FORMAT_VERSION_LEGACY_2
                /\ header'.version = FORMAT_VERSION
                /\ << "insert", FORMAT_VERSION_LEGACY_2 >> \in wlog'
                /\ Len(disk'[file_access].bytes) > Len(disk[file_access].bytes)
          /\ header.version = FORMAT_VERSION => header'.version = FORMAT_VERSION
          /\ << "insert", FORMAT_VERSION_LEGACY_2 >> \in wlog =>
                /\ last'.n = 0
                /\ Len(disk'[file_access].bytes) = Len(disk[file_access].bytes)]_vars

\* save_header migrated the version-2 file with one nested save_header call,
\* and the save_header call after it nested none and left the file as long as
\* it was
C23_Witness ==
    /\ nops = 2
    /\ last.op = "save_header" /\ last.ret = "true" /\ last.n = 0
    /\ header.version = FORMAT_VERSION
    /\ wlog = {<< "insert", FORMAT_VERSION_LEGACY_2 >>, << "header", FORMAT_VERSION >>}
    /\ disk["a"].bytes = CurrentFile

\* C24: as long as the process runs, every FileAccess open() allocated is
\* either held in _file_access or was deleted: after close(), and after every
\* open() that returned an error, none is left that nobody deletes
C24_NoHandleLeaked == ~crashed => leaked = 0

\* x * m for a number x given by its bytes, lowest first, without a bound: the
\* result has three bytes more than x
RECURSIVE TimesFrom(_, _, _)
TimesFrom(x, m, carry) ==
    IF x = << >> THEN << carry % 256, (carry \div 256) % 256, carry \div 65536 >>
    ELSE << (x[1] * m + carry) % 256 >> \o TimesFrom(Tail(x), m, (x[1] * m + carry) \div 256)

Times(x, m) == TimesFrom(x, m, 0)

\* x <= y for numbers given by bytes 1..i, lowest first
RECURSIVE AtMostFrom(_, _, _)
AtMostFrom(x, y, i) ==
    IF i = 0 THEN TRUE
    ELSE IF x[i] # y[i] THEN x[i] < y[i]
    ELSE AtMostFrom(x, y, i - 1)

AtMost(x, y) == AtMostFrom(x, y, Len(x))

\* q = ceil(w / d) over the integers: (q - 1) * d < w <= q * d, q and w being
\* given by four bytes
IsCeiling(q, w, d) ==
    /\ q # << 0, 0, 0, 0 >>
    /\ AtMost(w \o << 0, 0, 0 >>, Times(q, d))
    /\ ~AtMost(w \o << 0, 0, 0 >>, Times(U32Sub(q, 1), d))

\* the file after written_size bytes were written behind k sectors and padded:
\* what was there is unchanged, the bytes written are followed by fewer than
\* sector_size zeros and by none when written_size is a multiple of
\* sector_size, and the file ends on a sector boundary, as many sectors behind
\* the start of the block as get_sector_count_from_bytes counts
PaddedToSector(h, bytes, begin, k, written_size) ==
    LET ss == h.format.sector_size
        block_offset == begin + k * ss
        end_pos == block_offset + written_size
    IN  /\ SubSeq(bytes, 1, block_offset) = SectorMathFile(h, k)
        /\ SubSeq(bytes, block_offset + 1, end_pos) = WrittenBytes(written_size)
        /\ Len(bytes) >= end_pos /\ Len(bytes) - end_pos < ss
        /\ SubSeq(bytes, end_pos + 1, Len(bytes)) = Fill(0, Len(bytes) - end_pos)
        /\ (Len(bytes) - begin) % ss = 0
        /\ written_size % ss = 0 => Len(bytes) = end_pos
        /\ Len(bytes) - block_offset = ss * get_sector_count_from_bytes(h, written_size)

\* C25: get_sector_count_from_bytes(W) is ceil(W / sector_size) for every
\* W >= 1 up to 2^32 - 1, computed in 32 bits; and after W bytes were written
\* at the end of the sectors, pad_to_sector_size has written zeros up to the
\* next sector boundary behind blocks_begin_offset, none when W is a multiple
\* of sector_size
C25_SectorCountIsCeiling ==
    /\ last.op = "get_sector_count_from_bytes" =>
          /\ IsCeiling(last.ret, last.pos, header.format.sector_size)
          /\ last.pos[4] < 128 =>
                last.ret = U32LE(get_sector_count_from_bytes(header, Get32(last.pos, 0)))
    /\ last.op = "pad_to_sector_size" =>
          PaddedToSector(header, disk[file_access].bytes, blocks_begin_offset,
                         Len(sectors), last.n)

\* get_sector_count_from_bytes(2^32 - 1) with sectors of 8 bytes returned 2^29
C25_Witness ==
    /\ last.op = "get_sector_count_from_bytes"
    /\ last.pos = << 255, 255, 255, 255 >>
    /\ header.format.sector_size = 8
    /\ last.ret = << 0, 0, 0, 32 >>

\* C26: over the region R of the header, get_block_index_in_header maps every
\* position inside R to p.y + R.y * (p.x + R.x * p.z), an index below
\* R.volume() that get_block_position_from_index maps back to p;
\* get_block_position_from_index maps every index below R.volume() to a
\* position inside R that get_block_index_in_header maps back to the index
C26_IndexBijection ==
    /\ last.op = "get_block_index_in_header" =>
          /\ last.n = last.pos[2] + header.format.region_size[2]
                         * (last.pos[1] + header.format.region_size[1] * last.pos[3])
          /\ last.n >= 0 /\ last.n < volume(header.format.region_size)
          /\ get_block_position_from_index(header, last.n) = last.pos
    /\ last.op = "get_block_position_from_index" =>
          /\ last.pos \in PositionsIn(header.format.region_size)
          /\ get_block_index_in_header(header, last.pos) = last.n

\* index 23 of a 2x3x4 region was mapped to position (1,2,3), which maps back
\* to 2 + 3 * (1 + 2 * 3) = 23
C26_Witness ==
    /\ last.op = "get_block_position_from_index"
    /\ header.format.region_size = << 2, 3, 4 >>
    /\ last.n = 23
    /\ last.pos = << 1, 2, 3 >>

====
